---- MODULE Spec2Model ----
(***************************************************************************)
(* AutoPaper: a model of the paper-generation workflow engine.             *)
(*                                                                         *)
(*   - the version store of src/app.py (save_version, get_latest_version,  *)
(*     project creation and deletion), with save_version split at its      *)
(*     three database statements so that calls of several threads          *)
(*     interleave as they do in the Flask application;                     *)
(*   - SupervisorAgent (src/agents/supervisor_agent.py);                   *)
(*   - CommunicationAgent (src/agents/communication_agent.py);             *)
(*   - ResearchAgent.process (src/agents/research_agent.py).               *)
(*                                                                         *)
(* Each component has its own specification over the shared variables.    *)
(***************************************************************************)
EXTENDS Integers, Sequences, FiniteSets, TLC

VARIABLES
    projects,      \* ids of the rows of table paper_project
    versions,      \* rows of table paper_version: for each (project_id,
                   \* content_type), its rows in the order of insertion
    sv,            \* per thread: the save_version call in progress
    sup,           \* SupervisorAgent: iteration_round, progress
    supCall,       \* the last SupervisorAgent.process call: arguments, the
                   \* completion it received, the dict it returned
    agent_states,  \* CommunicationAgent.agent_states
    conversations, \* CommunicationAgent.conversations
    clock,         \* the last value datetime.now() gave the agent
    commRet,       \* what the last CommunicationAgent call returned
    ra,            \* the ResearchAgent: its fields and the locals of the
                   \* process call in progress
    status,        \* column status of table paper_project, by project id
    wf,            \* per thread: the multi-agent run in progress
    project_logs,  \* the module-level dict project_logs: project id -> entries
    agent_status,  \* the module-level dict agent_status: project id -> agent -> status
    st,            \* per thread: the interactive run as the status map sees it
    api,           \* an agent's settings and its _make_api_call in progress
    fc,            \* the facilitate_collaboration call in progress
    lg             \* per thread: the log_agent_activity call in progress

storeVars == <<projects, versions, sv>>

supVars == <<sup, supCall>>

commVars == <<agent_states, conversations, clock, commRet>>

vars == <<projects, versions, sv, sup, supCall,
          agent_states, conversations, clock, commRet, ra, status, wf,
          project_logs, lg, agent_status, st, api, fc>>

\* What the operations of one component leave alone.
notStore == <<sup, supCall, agent_states, conversations, clock, commRet, ra,
             status, wf, project_logs, lg, agent_status, st, api, fc>>

notProjects == <<sup, supCall, agent_states, conversations, clock, commRet, ra, wf,
                project_logs, lg, agent_status, st, api, fc>>

notSup == <<projects, versions, sv, agent_states, conversations, clock, commRet, ra,
           status, wf, project_logs, lg, agent_status, st, api, fc>>

notComm == <<projects, versions, sv, sup, supCall, ra, status, wf, project_logs, lg, agent_status, st, api, fc>>

notResearch == <<projects, versions, sv, sup, supCall,
                 agent_states, conversations, clock, commRet, status, wf,
                 project_logs, lg, agent_status, st, api, fc>>

notWorkflow == <<sup, supCall, agent_states, conversations, clock, commRet, ra,
                project_logs, lg, agent_status, st, api, fc>>

notLogs == <<projects, versions, sv, sup, supCall,
            agent_states, conversations, clock, commRet, ra, status, wf,
            agent_status, st, api, fc>>

notStatus == <<projects, versions, sv, sup, supCall,
              agent_states, conversations, clock, commRet, ra, status, wf,
              project_logs, lg, api, fc>>

notApi == <<projects, versions, sv, sup, supCall,
           agent_states, conversations, clock, commRet, ra, status, wf,
           project_logs, lg, agent_status, st, fc>>

(***************************************************************************)
(* Bounds of the model.                                                    *)
(***************************************************************************)
\* Rows the table paper_version may hold, and the largest version_number a
\* call may store.
MaxVersions == 3

ProjectIds == {1, 2}
Threads == {"thread1", "thread2"}
ContentTypes == {"research", "draft"}

\* The content types the multi-agent runs save.
RunContentTypes == {"research", "draft", "review", "final"}
Contents == {"c1", "c2"}

\* Python's None, as a value that compares (unequal) with every table row.
None == [none |-> TRUE]

(***************************************************************************)
(* Helpers.                                                                *)
(***************************************************************************)
SetMax(S) == CHOOSE x \in S : \A y \in S : y <= x

SetMaxOr0(S) == IF S = {} THEN 0 ELSE SetMax(S)

Range(f) == {f[i] : i \in DOMAIN f}

(***************************************************************************)
(* The version store.                                                      *)
(***************************************************************************)
\* PaperVersion.query.filter_by(project_id=p, content_type=t)
VersionsOf(p, t) == Range(versions[p, t])

NumbersOf(p, t) == {v.version_number : v \in VersionsOf(p, t)}

\* ....order_by(PaperVersion.version_number.desc()).first(): the rows the query
\* may return. Rows that tie on version_number are in no defined order, so
\* every row holding the maximum is a possible answer; {None} when no row.
LatestRows(p, t) ==
    IF VersionsOf(p, t) = {} THEN {None}
    ELSE {v \in VersionsOf(p, t) : v.version_number = SetMax(NumbersOf(p, t))}

get_latest_version(p, t) == LatestRows(p, t)

\* PaperVersion(project_id=.., content_type=.., content=.., version_number=..)
PaperVersion(p, t, c, n) ==
    [project_id |-> p, content_type |-> t, content |-> c, version_number |-> n]

RECURSIVE SumLen(_)
SumLen(K) ==
    IF K = {} THEN 0
    ELSE LET k == CHOOSE x \in K : TRUE IN Len(versions[k]) + SumLen(K \ {k})

\* The number of rows of table paper_version.
TotalRows == SumLen(DOMAIN versions)

IdleCall == [pc |-> "idle", project_id |-> 0, content_type |-> "",
             content |-> "", version_number |-> 0]

\* The status of a project id that has no row.
NoRow == "(no row)"

\* (mutant) the number of the latest row is reused, not incremented
NextVersionNumber_NoIncrement(latest) ==
    IF latest = None THEN 1 ELSE latest.version_number

\* version_number = 1; if latest_version: version_number = latest.version_number + 1
NextVersionNumber(latest) ==
    IF latest = None THEN 1 ELSE latest.version_number + 1

\* create_project: db.session.add(project); db.session.commit(). SQLite gives
\* the new row the integer primary key one more than the largest in the table.
CreateProject ==
    /\ SetMaxOr0(projects) + 1 \in ProjectIds
    /\ projects' = projects \cup {SetMaxOr0(projects) + 1}
    /\ status' = [status EXCEPT ![SetMaxOr0(projects) + 1] = "created"]
    /\ UNCHANGED <<versions, sv>>
    /\ UNCHANGED notProjects

\* (mutant) the deletion of a project removes the versions of every project
DeleteProject_AllVersions(p) ==
    /\ p \in projects
    /\ projects' = projects \ {p}
    /\ versions' = [k \in DOMAIN versions |-> <<>>]
    /\ status' = [status EXCEPT ![p] = NoRow]
    /\ UNCHANGED sv
    /\ UNCHANGED notProjects

\* api_delete_project: db.session.delete(project); commit. The relationship
\* cascade 'all, delete-orphan' deletes the project's versions with it.
DeleteProject(p) ==
    /\ p \in projects
    /\ projects' = projects \ {p}
    /\ versions' = [k \in DOMAIN versions |-> IF k[1] = p THEN <<>> ELSE versions[k]]
    /\ status' = [status EXCEPT ![p] = NoRow]
    /\ UNCHANGED sv
    /\ UNCHANGED notProjects

\* (mutant) save_version goes on without looking for the project
SaveVersionGetProject_NoCheck(th, p, t, c) ==
    /\ sv[th].pc = "idle"
    /\ sv' = [sv EXCEPT ![th] = [pc |-> "got_project", project_id |-> p,
                                  content_type |-> t, content |-> c,
                                  version_number |-> 0]]
    /\ UNCHANGED <<projects, versions>>
    /\ UNCHANGED notStore

\* save_version, first statement: project = PaperProject.query.get(project_id);
\* if not project: return None
SaveVersionGetProject(th, p, t, c) ==
    /\ sv[th].pc = "idle"
    /\ IF p \in projects
       THEN sv' = [sv EXCEPT ![th] = [pc |-> "got_project", project_id |-> p,
                                       content_type |-> t, content |-> c,
                                       version_number |-> 0]]
       ELSE sv' = sv             \* return None: the call is over
    /\ UNCHANGED <<projects, versions>>
    /\ UNCHANGED notStore

\* save_version, second statement: the latest-version query and the number
\* computed from it.
SaveVersionQueryLatest(th) ==
    /\ sv[th].pc = "got_project"
    /\ \E latest \in LatestRows(sv[th].project_id, sv[th].content_type) :
        sv' = [sv EXCEPT ![th].pc = "got_latest",
                         ![th].version_number = NextVersionNumber(latest)]
    /\ UNCHANGED <<projects, versions>>
    /\ UNCHANGED notStore

\* save_version, third statement: db.session.add(version); db.session.commit();
\* return version
SaveVersionCommit(th) ==
    /\ sv[th].pc = "got_latest"
    /\ LET p == sv[th].project_id
           t == sv[th].content_type
       IN /\ TotalRows < MaxVersions                 \* bound of the model
          /\ sv[th].version_number <= MaxVersions    \* bound of the model
          /\ versions' = [versions EXCEPT ![p, t] =
                Append(@, PaperVersion(p, t, sv[th].content, sv[th].version_number))]
    /\ sv' = [sv EXCEPT ![th] = IdleCall]
    /\ UNCHANGED projects
    /\ UNCHANGED notStore

(***************************************************************************)
(* Text. A string is modelled as the sequence of its words; Python's        *)
(* substring test `phrase in text` is the search for the phrase's words as  *)
(* a contiguous run of the text's words.                                    *)
(***************************************************************************)
\* The most fragments a text is made of.
MaxFragments == 2

Fragments ==
    { <<"accept", "the", "feedback">>, <<"reject", "the", "feedback">>,
      <<"ACCEPT", "THE", "FEEDBACK">>,
      <<"Accept">>, <<"Reject">>, <<"the", "feedback">> }

RECURSIVE TextsOf(_)
TextsOf(n) ==
    IF n = 0 THEN {<<>>}
    ELSE TextsOf(n - 1) \cup {t \o f : t \in TextsOf(n - 1), f \in Fragments}

\* The completions the language model may give.
Texts == TextsOf(MaxFragments)

\* phrase in text
Contains(text, phrase) ==
    \E i \in 1..(Len(text) - Len(phrase) + 1) :
        SubSeq(text, i, i + Len(phrase) - 1) = phrase

\* An argument that is present (not None), holding a text.
Some(t) == [text |-> t]

(***************************************************************************)
(* SupervisorAgent.                                                        *)
(***************************************************************************)
\* The most evaluations one supervisor makes.
MaxRounds == 2

\* What BaseAgent._make_api_call returns when its last retry failed: one of
\* its three messages, each a text that starts with "API" (a failed call with
\* a status code, a connection timeout, another exception).
ApiErrorSentinels ==
    { <<"API", "call", "failed">>, <<"API", "connection", "timeout">>,
      <<"API", "call", "error">> }

\* What _make_api_call may return to the supervisor.
Completions == Texts \cup ApiErrorSentinels

ResearchResults == {None, Some(<<"research">>)}

PaperDrafts == {None, Some(<<"draft">>)}

ReviewFeedbacks ==
    {None, Some(<<"accept", "the", "feedback">>), Some(<<"minor", "comments">>)}

\* (mutant) the draft is looked at before the research result
Stage_DraftFirst(research_result, paper_draft, review_feedback) ==
    IF paper_draft = None THEN "write"
    ELSE IF research_result = None THEN "research"
    ELSE IF review_feedback = None THEN "review"
    ELSE "evaluate"

\* process: the stage the available inputs select
Stage(research_result, paper_draft, review_feedback) ==
    IF research_result = None THEN "research"
    ELSE IF paper_draft = None THEN "write"
    ELSE IF review_feedback = None THEN "review"
    ELSE "evaluate"

\* "Accept the feedback" in evaluation or "accept the feedback" in evaluation
ContainsAccept(evaluation) ==
    \/ Contains(evaluation, <<"Accept", "the", "feedback">>)
    \/ Contains(evaluation, <<"accept", "the", "feedback">>)

\* "Reject the feedback" in evaluation or "reject the feedback" in evaluation
ContainsReject(evaluation) ==
    \/ Contains(evaluation, <<"Reject", "the", "feedback">>)
    \/ Contains(evaluation, <<"reject", "the", "feedback">>)

\* (mutant) the reject phrase is looked for first
ExtractDecision_RejectFirst(evaluation) ==
    IF ContainsReject(evaluation)
    THEN [decision |-> "reject_feedback", action |-> "review"]
    ELSE IF ContainsAccept(evaluation)
    THEN [decision |-> "revise", action |-> "write"]
    ELSE [decision |-> "complete", action |-> "complete"]

\* (mutant) an evaluation with neither phrase asks for another review
ExtractDecision_DefaultReview(evaluation) ==
    IF ContainsAccept(evaluation)
    THEN [decision |-> "revise", action |-> "write"]
    ELSE [decision |-> "reject_feedback", action |-> "review"]

\* _evaluate_review_feedback: "Extract decision from evaluation"
ExtractDecision(evaluation) ==
    IF ContainsAccept(evaluation)
    THEN [decision |-> "revise", action |-> "write"]
    ELSE IF ContainsReject(evaluation)
    THEN [decision |-> "reject_feedback", action |-> "review"]
    ELSE [decision |-> "complete", action |-> "complete"]

\* The dict _assign_research_task, _assign_writing_task and _assign_review_task
\* return: it has no "decision" and no "iteration" key.
AssignResult(action, instructions) ==
    [action |-> action, decision |-> "(no key)", iteration |-> 0,
     text |-> instructions]

\* The dict _evaluate_review_feedback returns.
EvaluateResult(evaluation, round) ==
    [action |-> ExtractDecision(evaluation).action,
     decision |-> ExtractDecision(evaluation).decision,
     iteration |-> round, text |-> evaluation]

NoCall == [none |-> TRUE]

\* (mutant) _evaluate_review_feedback does not count its round
SupervisorProcess_NoCount(research_result, paper_draft, review_feedback) ==
    /\ sup.pc = "idle"
    /\ sup' = [iteration_round |-> sup.iteration_round, progress |-> 50,
               pc |-> Stage(research_result, paper_draft, review_feedback)]
    /\ supCall' = [research_result |-> research_result,
                   paper_draft |-> paper_draft,
                   review_feedback |-> review_feedback,
                   completion |-> <<>>,
                   result |-> None]
    /\ UNCHANGED notSup

\* SupervisorAgent.process(topic, research_result, paper_draft, review_feedback)
\* up to its _make_api_call: self.progress = 10, the stage is chosen,
\* _evaluate_review_feedback counts its round, self.progress = 50.
SupervisorProcess(research_result, paper_draft, review_feedback) ==
    LET stage == Stage(research_result, paper_draft, review_feedback)
        round == IF stage = "evaluate" THEN sup.iteration_round + 1
                 ELSE sup.iteration_round
    IN /\ sup.pc = "idle"
       /\ round <= MaxRounds                         \* bound of the model
       /\ sup' = [iteration_round |-> round, progress |-> 50, pc |-> stage]
       /\ supCall' = [research_result |-> research_result,
                      paper_draft |-> paper_draft,
                      review_feedback |-> review_feedback,
                      completion |-> <<>>,
                      result |-> None]
       /\ UNCHANGED notSup

\* The rest of process: _make_api_call returns `completion`,
\* self.progress = 100, and the dict is built and returned.
SupervisorReturn(completion) ==
    /\ sup.pc # "idle"
    /\ sup' = [sup EXCEPT !.progress = 100, !.pc = "idle"]
    /\ supCall' = [supCall EXCEPT
          !.completion = completion,
          !.result = IF sup.pc = "evaluate"
                     THEN EvaluateResult(completion, sup.iteration_round)
                     ELSE AssignResult(sup.pc, completion)]
    /\ UNCHANGED notSup

\* SupervisorAgent.__init__: self.progress = 0; self.iteration_round = 0
SupInit ==
    /\ sup = [iteration_round |-> 0, progress |-> 0, pc |-> "idle"]
    /\ supCall = NoCall

(***************************************************************************)
(* CommunicationAgent.                                                     *)
(***************************************************************************)
\* The most messages sent over all conversations.
MaxMessages == 3

AgentIds == {"a", "a_b", "b_a"}

\* register_agent's (agent_type, description) arguments; "" stands for a
\* description that is None or empty, which `description or ...` replaces.
Registrations == {<<"research", "">>, <<"writing", "Writer">>}

\* str.capitalize() on the agent types
Capitalize(agent_type) ==
    CASE agent_type = "research" -> "Research"
      [] agent_type = "writing" -> "Writing"

Registered == DOMAIN agent_states

\* The value a call returns, with the method that returned it.
Ret(method, value) == [method |-> method, value |-> value]

\* (mutant) a second registration overwrites the entry
register_agent_Overwrite(agent_id, agent_type, description) ==
    /\ clock' = clock + 1
    /\ agent_states' =
          [a \in Registered \cup {agent_id} |->
              IF a = agent_id
              THEN [type |-> agent_type,
                    description |-> IF description = ""
                                    THEN Capitalize(agent_type) \o " Agent"
                                    ELSE description,
                    status |-> "idle",
                    last_active |-> clock + 1]
              ELSE agent_states[a]]
    /\ commRet' = Ret("register_agent", agent_id \notin Registered)
    /\ UNCHANGED conversations
    /\ UNCHANGED notComm

\* register_agent(agent_id, agent_type, description)
register_agent(agent_id, agent_type, description) ==
    /\ IF agent_id \notin Registered
       THEN /\ clock' = clock + 1
            /\ agent_states' =
                  [a \in Registered \cup {agent_id} |->
                      IF a = agent_id
                      THEN [type |-> agent_type,
                            description |-> IF description = ""
                                            THEN Capitalize(agent_type) \o " Agent"
                                            ELSE description,
                            status |-> "idle",
                            last_active |-> clock + 1]
                      ELSE agent_states[a]]
            /\ commRet' = Ret("register_agent", TRUE)
       ELSE /\ commRet' = Ret("register_agent", FALSE)
            /\ UNCHANGED <<agent_states, clock>>
    /\ UNCHANGED conversations
    /\ UNCHANGED notComm

RECURSIVE SumMessages(_)
SumMessages(ids) ==
    IF ids = {} THEN 0
    ELSE LET c == CHOOSE x \in ids : TRUE
         IN Len(conversations[c].messages) + SumMessages(ids \ {c})

\* The number of messages in all conversations.
TotalMessages == SumMessages(DOMAIN conversations)

\* f"{sender_id}_{recipient_id}"
ConvId(sender_id, recipient_id) == sender_id \o "_" \o recipient_id

\* (mutant) the recipient is validated before the sender
ValidationError_RecipientFirst(sender_id, recipient_id) ==
    IF recipient_id \notin Registered THEN "Unknown recipient"
    ELSE IF sender_id \notin Registered THEN "Unknown sender"
    ELSE ""

\* send_message: "Validate sender and recipient"; "" when both are registered
ValidationError(sender_id, recipient_id) ==
    IF sender_id \notin Registered THEN "Unknown sender"
    ELSE IF recipient_id \notin Registered THEN "Unknown recipient"
    ELSE ""

\* send_message: the conversation id the message goes to
ResolveConvId(sender_id, recipient_id) ==
    LET conv_id == ConvId(sender_id, recipient_id)
        alt_conv_id == ConvId(recipient_id, sender_id)
    IN IF alt_conv_id \in DOMAIN conversations /\ conv_id \notin DOMAIN conversations
       THEN alt_conv_id
       ELSE conv_id

\* (mutant) the message id is the count of the messages before the append
MessageId_Count(conv) == Len(conv.messages)

\* send_message: "id": len(self.conversations[conv_id]["messages"]) + 1
MessageId(conv) == Len(conv.messages) + 1

\* send_message(sender_id, recipient_id, message, message_type)
send_message(sender_id, recipient_id, message, message_type) ==
    /\ IF ValidationError(sender_id, recipient_id) # ""
       THEN /\ commRet' = Ret("send_message",
                  [success |-> FALSE,
                   error |-> ValidationError(sender_id, recipient_id)])
            /\ UNCHANGED <<agent_states, conversations, clock>>
       ELSE LET conv_id == ResolveConvId(sender_id, recipient_id)
                timestamp == clock + 1
                conv == IF conv_id \in DOMAIN conversations
                        THEN conversations[conv_id]
                        ELSE [participants |-> <<sender_id, recipient_id>>,
                              started |-> timestamp,
                              updated |-> timestamp,
                              messages |-> <<>>]
                message_obj == [id |-> MessageId(conv),
                                sender |-> sender_id,
                                recipient |-> recipient_id,
                                content |-> message,
                                type |-> message_type,
                                timestamp |-> timestamp]
            IN /\ clock' = timestamp
               /\ conversations' =
                     [c \in DOMAIN conversations \cup {conv_id} |->
                         IF c = conv_id
                         THEN [conv EXCEPT !.messages = Append(@, message_obj),
                                           !.updated = timestamp]
                         ELSE conversations[c]]
               /\ agent_states' =
                     [a \in Registered |->
                         IF a = recipient_id
                         THEN [(IF a = sender_id
                                THEN [agent_states[a] EXCEPT !.last_active = timestamp]
                                ELSE agent_states[a])
                               EXCEPT !.status = "received_message"]
                         ELSE IF a = sender_id
                         THEN [agent_states[a] EXCEPT !.last_active = timestamp,
                                                      !.status = "sent_message"]
                         ELSE agent_states[a]]
               /\ commRet' = Ret("send_message",
                     [success |-> TRUE, conversation_id |-> conv_id,
                      message_id |-> message_obj.id])
    /\ UNCHANGED notComm

\* (mutant) asking for an unknown conversation creates it
get_conversation_Create(conversation_id) ==
    /\ commRet' = Ret("get_conversation",
          IF conversation_id \in DOMAIN conversations
          THEN [success |-> TRUE, conversation |-> conversations[conversation_id]]
          ELSE [success |-> FALSE,
                error |-> "Conversation " \o conversation_id \o " not found"])
    /\ conversations' =
          [c \in DOMAIN conversations \cup {conversation_id} |->
              IF c \in DOMAIN conversations THEN conversations[c]
              ELSE [participants |-> <<"", "">>, started |-> clock,
                    updated |-> clock, messages |-> <<>>]]
    /\ UNCHANGED <<agent_states, clock>>
    /\ UNCHANGED notComm

\* get_conversation(conversation_id)
get_conversation(conversation_id) ==
    /\ commRet' = Ret("get_conversation",
          IF conversation_id \in DOMAIN conversations
          THEN [success |-> TRUE, conversation |-> conversations[conversation_id]]
          ELSE [success |-> FALSE,
                error |-> "Conversation " \o conversation_id \o " not found"])
    /\ UNCHANGED <<agent_states, conversations, clock>>
    /\ UNCHANGED notComm

\* self.conversations.items(): the conversation ids of S in the order in which
\* they were inserted, which is the order of their started timestamps.
RECURSIVE InInsertionOrder(_)
InInsertionOrder(S) ==
    IF S = {} THEN <<>>
    ELSE LET first == CHOOSE c \in S :
                         \A d \in S : conversations[c].started <= conversations[d].started
         IN <<first>> \o InInsertionOrder(S \ {first})

\* The number of the messages of conv that satisfy the test on field `role`.
CountMessages(conv, role, agent_id) ==
    Cardinality({i \in DOMAIN conv.messages : conv.messages[i][role] = agent_id})

\* get_agent_conversations: the summary of one conversation of agent_id
ConversationSummary(conv_id, agent_id) ==
    LET conv == conversations[conv_id]
        other_participant == IF conv.participants[1] # agent_id
                             THEN conv.participants[1]
                             ELSE conv.participants[2]
    IN [conversation_id |-> conv_id,
        with_agent |-> other_participant,
        with_agent_type |-> agent_states[other_participant].type,
        messages_count |-> Len(conv.messages),
        messages_sent |-> CountMessages(conv, "sender", agent_id),
        messages_received |-> CountMessages(conv, "recipient", agent_id),
        started |-> conv.started,
        updated |-> conv.updated,
        latest_message |-> conv.messages[Len(conv.messages)]]

\* get_agent_conversations(agent_id)
get_agent_conversations(agent_id) ==
    /\ commRet' = Ret("get_agent_conversations",
          IF agent_id \notin Registered
          THEN [success |-> FALSE, error |-> "Unknown agent: " \o agent_id]
          ELSE LET mine == InInsertionOrder(
                              {c \in DOMAIN conversations :
                                  \E k \in 1..2 : conversations[c].participants[k] = agent_id})
               IN [success |-> TRUE,
                   agent_id |-> agent_id,
                   conversations |->
                       [k \in DOMAIN mine |-> ConversationSummary(mine[k], agent_id)]])
    /\ UNCHANGED <<agent_states, conversations, clock>>
    /\ UNCHANGED notComm

MessageContents == {"hi"}

MessageTypes == {"information"}

\* CommunicationAgent.__init__: self.conversations = {}; self.agent_states = {}
CommInit ==
    /\ agent_states = <<>>
    /\ conversations = <<>>
    /\ clock = 0
    /\ commRet = Ret("__init__", TRUE)

CommNext ==
    \/ \E id \in AgentIds, reg \in Registrations :
          register_agent(id, reg[1], reg[2])
    \/ \E s \in AgentIds, r \in AgentIds, m \in MessageContents, mt \in MessageTypes :
          /\ ValidationError(s, r) = "" => TotalMessages < MaxMessages
                                                       \* bound of the model
          /\ send_message(s, r, m, mt)

\* The most messages sent in the behaviours that also query.
MaxQueriedMessages == 1

\* The conversation ids asked for: those that exist and one that never does.
QueriedConversationIds == DOMAIN conversations \cup {"b_b"}

CommQueriesNext ==
    \/ \E id \in AgentIds, reg \in Registrations :
          register_agent(id, reg[1], reg[2])
    \/ \E s \in AgentIds, r \in AgentIds, m \in MessageContents, mt \in MessageTypes :
          /\ TotalMessages < MaxQueriedMessages
          /\ ValidationError(s, r) = "" => TotalMessages < MaxMessages
          /\ send_message(s, r, m, mt)
    \/ \E c \in QueriedConversationIds : get_conversation(c)
    \/ \E a \in AgentIds : get_agent_conversations(a)

(***************************************************************************)
(* CommunicationAgent.facilitate_collaboration(topic, agents, max_rounds): *)
(* the agents are registered, then in every round every agent sends one    *)
(* message, written by the language model, to every other agent.           *)
(***************************************************************************)
\* The most messages one collaboration sends.
MaxCollabMessages == 6

\* The keys of the dict `agents`, in its order: two or three distinct ids.
CollabAgentLists ==
    {ag \in (AgentIds \X AgentIds) \cup (AgentIds \X AgentIds \X AgentIds) :
        \A i, j \in DOMAIN ag : i # j => ag[i] # ag[j]}

\* What _make_api_call returns for a message: a text, or its error sentinel.
CollabCompletions == {"contribution", "API call failed"}

NoCollab == [pc |-> "idle", agents |-> <<>>, max_rounds |-> 0, start_clock |-> 0]

\* Messages of one round: each agent to every other agent.
PerRound(ag) == Len(ag) * (Len(ag) - 1)

\* The messages the call has sent: send_message advances the clock by one.
CollabSent == clock - fc.start_clock

\* The sender and the recipient of message number k + 1 of the call, in the
\* order of the loops over agents.items().
CollabPair(ag, k) ==
    LET m == k % PerRound(ag)
        i == (m \div (Len(ag) - 1)) + 1
        jj == (m % (Len(ag) - 1)) + 1
        j == IF jj < i THEN jj ELSE jj + 1
    IN <<ag[i], ag[j]>>

\* facilitate_collaboration is entered.
FacilitateStart(ag, max_rounds) ==
    /\ fc.pc = "idle"
    /\ fc' = [NoCollab EXCEPT !.pc = "registering", !.agents = ag,
                              !.max_rounds = max_rounds]
    /\ UNCHANGED <<agent_states, conversations, clock, commRet>>
    /\ UNCHANGED <<projects, versions, sv, sup, supCall, ra, status, wf,
                   project_logs, lg, agent_status, st, api>>

\* "Register all agents if they aren't already": the next one of them.
FacilitateRegister ==
    /\ fc.pc = "registering"
    /\ \E i \in DOMAIN fc.agents :
          /\ fc.agents[i] \notin Registered
          /\ \A j \in 1..(i - 1) : fc.agents[j] \in Registered
          /\ register_agent(fc.agents[i], "research", "")

\* All agents are registered: the rounds begin.
FacilitateBeginRounds ==
    /\ fc.pc = "registering"
    /\ Range(fc.agents) \subseteq Registered
    /\ fc' = [fc EXCEPT !.pc = "rounds", !.start_clock = clock]
    /\ UNCHANGED <<agent_states, conversations, clock, commRet>>
    /\ UNCHANGED <<projects, versions, sv, sup, supCall, ra, status, wf,
                   project_logs, lg, agent_status, st, api>>

\* One pass of the innermost loop: the completion call, then send_message.
FacilitateSend(completion) ==
    /\ fc.pc = "rounds"
    /\ CollabSent < fc.max_rounds * PerRound(fc.agents)
    /\ send_message(CollabPair(fc.agents, CollabSent)[1],
                    CollabPair(fc.agents, CollabSent)[2],
                    completion, "collaboration")

\* The last round is over: the summary is made and the dict is returned.
FacilitateReturn ==
    /\ fc.pc = "rounds"
    /\ CollabSent = fc.max_rounds * PerRound(fc.agents)
    /\ fc' = [fc EXCEPT !.pc = "returned"]
    /\ commRet' = Ret("facilitate_collaboration",
                      [success |-> TRUE, rounds |-> fc.max_rounds])
    /\ UNCHANGED <<agent_states, conversations, clock>>
    /\ UNCHANGED <<projects, versions, sv, sup, supCall, ra, status, wf,
                   project_logs, lg, agent_status, st, api>>

CollabInit == fc = NoCollab

\* One collaboration, on an agent that may have registered one agent before.
CollabNext ==
    \/ \E id \in AgentIds :
          /\ fc.pc = "idle" /\ clock = 0
          /\ register_agent(id, "writing", "Writer")
    \/ \E ag \in CollabAgentLists, r \in 1..MaxCollabMessages :
          /\ r * PerRound(ag) <= MaxCollabMessages         \* bound of the model
          /\ FacilitateStart(ag, r)
    \/ FacilitateRegister
    \/ FacilitateBeginRounds
    \/ \E completion \in CollabCompletions : FacilitateSend(completion)
    \/ FacilitateReturn

(***************************************************************************)
(* ResearchAgent.                                                          *)
(***************************************************************************)
max_retry_attempts == 3

retry_delay == 5

\* len(titles) in _create_llm_generated_papers
NumTitles == 7

\* _create_llm_generated_papers' default count
DefaultCount == 5

\* the count process passes in its exception handler
ErrorFallbackCount == 3

\* process limits the papers it analyses: papers[:10]
AnalysisLimit == 10

\* The longest research source list.
MaxSources == 2

SourceNames == {"arxiv", "google_scholar", "pubmed", "none", "scopus"}

Providers == {"arxiv", "google_scholar", "pubmed"}

RECURSIVE SeqsUpTo(_, _)
SeqsUpTo(S, n) ==
    IF n = 0 THEN {<<>>}
    ELSE LET shorter == SeqsUpTo(S, n - 1)
         IN shorter \cup { Append(q, x) : q \in shorter, x \in S }

SourceLists == SeqsUpTo(SourceNames, MaxSources)

\* The research_source argument of the constructor: a string, given by its
\* comma-separated pieces with the blanks around them stripped, a list, or
\* a value of another type.
ResearchSourceArgs ==
    [kind : {"str"}, items : SourceLists \ {<<>>}]
       \cup [kind : {"list"}, items : SourceLists]
       \cup [kind : {"other"}, items : {<<>>}]

Topics == {"graph neural networks"}

\* A paper as a provider or the language model's JSON gives it: whether its
\* abstract is shorter than 20 characters, and whether its authors are a
\* list of strings (what _analyze_papers joins).
RawPaper(abstract, authors_ok) == [abstract |-> abstract, authors_ok |-> authors_ok]

GoodPaper == RawPaper("long", TRUE)

ShortPaper == RawPaper("", TRUE)

OddPaper == RawPaper("long", FALSE)

\* What one provider search gives: a papers list, or an exception with its
\* message.
ProviderOutcomes ==
    [kind : {"papers"},
     papers : {<<>>, <<GoodPaper, ShortPaper>>, <<OddPaper>>,
               <<GoodPaper, GoodPaper, GoodPaper>>},
     message : {""}]
       \cup [kind : {"raise"}, papers : {<<>>}, message : {"", "connection timeout"}]

\* An element of the language model's JSON array that is no dict.
NotADict == [none |-> TRUE]

\* What the synthesis call gives: an exception; text without a JSON array
\* or with an invalid one; a JSON array.
SynthesisOutcomes ==
    [kind : {"raise", "text"}, items : {<<>>}]
       \cup [kind : {"json"},
             items : {<<>>, <<GoodPaper>>, <<GoodPaper, GoodPaper>>, <<OddPaper>>,
                      <<NotADict>>, <<GoodPaper, NotADict>>}]

\* A paper of all_papers: where it comes from, how many key points it has
\* (0: no key_points key), whether its authors are a list of strings.
Paper(origin, key_points, authors_ok) ==
    [origin |-> origin, key_points |-> key_points, authors_ok |-> authors_ok]

Min(a, b) == IF a <= b THEN a ELSE b

\* _extract_key_points_from_abstract: the number of key points
extract_key_points_from_abstract(abstract) == IF abstract = "" THEN 1 ELSE 3

\* _format_arxiv_papers, _format_google_scholar_papers, _format_pubmed_papers
FormatPapers(source, raw) ==
    [k \in DOMAIN raw |->
        Paper(source, extract_key_points_from_abstract(raw[k].abstract),
              raw[k].authors_ok)]

\* (mutant) the template generator gives no paper
create_llm_generated_papers_Nothing(count) == <<>>

\* _create_llm_generated_papers(topic, count)
create_llm_generated_papers(count) ==
    [k \in 1..Min(count, NumTitles) |-> Paper("template", 3, TRUE)]

\* ",".join(seq)
RECURSIVE Join(_)
Join(seq) ==
    IF seq = <<>> THEN ""
    ELSE IF Len(seq) = 1 THEN seq[1]
    ELSE seq[1] \o "," \o Join(Tail(seq))

\* (mutant) google_scholar is retried like the other providers
Attempts_AllRetried(source) == max_retry_attempts

\* range(self.max_retry_attempts) for arxiv and pubmed, range(1) for
\* google_scholar
Attempts(source) == IF source = "google_scholar" THEN 1 ELSE max_retry_attempts

\* The first index from i on of a source that process searches; sources of
\* other names pass through the loop body without effect.
RECURSIVE NextProviderIndex(_, _)
NextProviderIndex(sources, i) ==
    IF i > Len(sources) THEN i
    ELSE IF sources[i] \in Providers THEN i
    ELSE NextProviderIndex(sources, i + 1)

\* The value of a local variable that was never assigned.
Unbound == "(unbound)"

\* The state of an agent no process call has been made on.
Constructed(research_sources) ==
    [pc |-> "idle", research_sources |-> research_sources, topic |-> "",
     progress |-> 0, i |-> 0, attempt |-> 0, error_message |-> "",
     all_papers |-> <<>>, successful_sources |-> <<>>, failed_sources |-> <<>>,
     source |-> Unbound, synthesis |-> "", sleeps |-> <<>>, calls |-> <<>>,
     empty_results |-> 0,
     result |-> None]

\* ResearchAgent.__init__(research_source)
ResearchAgentNew(research_source) ==
    /\ ra.pc = "unconstructed"
    /\ ra' = Constructed(IF research_source.kind \in {"str", "list"}
                         THEN research_source.items
                         ELSE <<"none">>)
    /\ UNCHANGED notResearch

\* process, after the loop over the sources (r.i is past the last source)
AfterLoop(r) ==
    LET loop_var == IF r.research_sources = <<"none">> THEN r.source
                    ELSE IF r.research_sources = <<>> THEN Unbound
                    ELSE r.research_sources[Len(r.research_sources)]
    IN IF r.all_papers = <<>> /\ r.research_sources # <<"none">>
       THEN [r EXCEPT !.progress = 40, !.source = loop_var, !.pc = "synthesis"]
       ELSE [r EXCEPT !.progress = 40, !.source = Join(r.successful_sources),
                      !.pc = "analyze"]

\* process, at the top of the loop body or past the loop
Continue(r) == IF r.i > Len(r.research_sources) THEN AfterLoop(r) ELSE r

\* process(topic), up to the first provider search
ResearchProcess(topic) ==
    /\ ra.pc = "idle"
    /\ LET r == [Constructed(ra.research_sources) EXCEPT
                    !.topic = topic, !.progress = 20, !.pc = "search"]
       IN ra' = IF r.research_sources = <<"none">>
                THEN AfterLoop([r EXCEPT
                        !.all_papers = create_llm_generated_papers(DefaultCount),
                        !.source = "llm_generated"])
                ELSE Continue([r EXCEPT
                        !.i = NextProviderIndex(r.research_sources, 1)])
    /\ UNCHANGED notResearch

\* process: one attempt on the provider of the current source, and what
\* follows it up to the next provider search
ProviderAttempt(outcome) ==
    /\ ra.pc = "search"
    /\ LET source == ra.research_sources[ra.i]
           raised == outcome.kind = "raise"
           found == outcome.kind = "papers" /\ outcome.papers # <<>>
           error_message == IF raised THEN outcome.message ELSE ra.error_message
           last == found \/ ra.attempt + 1 = Attempts(source)
           tried == [ra EXCEPT
                       !.calls = Append(@, source),
                       !.empty_results = IF raised \/ found THEN @ ELSE @ + 1,
                       !.error_message = error_message,
                       !.sleeps = IF raised /\ source # "google_scholar"
                                  THEN Append(@, retry_delay) ELSE @,
                       !.all_papers = IF found
                                      THEN @ \o FormatPapers(source, outcome.papers)
                                      ELSE @,
                       !.successful_sources = IF found THEN Append(@, source) ELSE @]
           reason == IF error_message # "" THEN error_message ELSE "No papers found"
       IN ra' = IF ~last
                THEN [tried EXCEPT !.attempt = @ + 1]
                ELSE Continue([tried EXCEPT
                        !.failed_sources =
                            IF found THEN @
                            ELSE [x \in DOMAIN @ \cup {source} |->
                                     IF x = source THEN reason ELSE @[x]],
                        !.attempt = 0,
                        !.error_message = "",
                        !.i = NextProviderIndex(ra.research_sources, ra.i + 1)])
    /\ UNCHANGED notResearch

\* The elements of the JSON array that process formats before one that is
\* no dict stops it.
RECURSIVE FormattedPrefix(_)
FormattedPrefix(items) ==
    IF items = <<>> \/ Head(items) = NotADict THEN <<>>
    ELSE <<Paper("llm_suggested", 0, Head(items).authors_ok)>>
            \o FormattedPrefix(Tail(items))

\* process: the papers asked of the language model when no source gave any
Synthesis(outcome) ==
    /\ ra.pc = "synthesis"
    /\ LET llm_papers == IF outcome.kind = "json"
                         THEN FormattedPrefix(outcome.items) ELSE <<>>
           completed == outcome.kind = "json"
                           /\ Len(llm_papers) = Len(outcome.items)
       IN ra' = [ra EXCEPT
                    !.synthesis = outcome.kind,
                    !.all_papers = IF llm_papers = <<>>
                                   THEN create_llm_generated_papers(DefaultCount)
                                   ELSE llm_papers,
                    !.source = IF llm_papers = <<>> THEN "llm_generated"
                               ELSE IF completed THEN "llm_suggested"
                               ELSE @,
                    !.pc = "analyze"]
    /\ UNCHANGED notResearch

\* _analyze_papers raises on a paper, among the first ten, whose authors are
\* no list of strings; building the result raises on an unassigned source.
AnalysisRaises(r) ==
    \/ \E k \in 1..Min(Len(r.all_papers), AnalysisLimit) : ~r.all_papers[k].authors_ok
    \/ r.source = Unbound

\* process: the analysis, the summary and the return
ResearchReturn ==
    /\ ra.pc = "analyze"
    /\ ra' = [ra EXCEPT
                 !.progress = 100,
                 !.pc = "idle",
                 !.result =
                     IF AnalysisRaises(ra)
                     THEN [error |-> TRUE,
                           papers |-> create_llm_generated_papers(ErrorFallbackCount),
                           source |-> "error_fallback"]
                     ELSE [papers |-> ra.all_papers,
                           source |-> ra.source,
                           successful_sources |-> ra.successful_sources,
                           failed_sources |-> ra.failed_sources]]
    /\ UNCHANGED notResearch

ResearchInit ==
    ra = [Constructed(<<>>) EXCEPT !.pc = "unconstructed"]

ResearchNext ==
    \/ \E research_source \in ResearchSourceArgs : ResearchAgentNew(research_source)
    \/ \E topic \in Topics : ResearchProcess(topic)
    \/ \E outcome \in ProviderOutcomes : ProviderAttempt(outcome)
    \/ \E outcome \in SynthesisOutcomes : Synthesis(outcome)
    \/ ResearchReturn

(***************************************************************************)
(* The multi-agent runs: api_start_multi_agent, which runs the four phases *)
(* in the request, and run_interactive_multi_agent_process, which runs     *)
(* them in a background thread.                                            *)
(***************************************************************************)
\* Rows the table paper_version may hold while runs are checked.
MaxRunRows == 4

Phases == <<"research", "writing", "review", "revision">>

\* The content type a phase saves its result as.
SavedAs(phase) ==
    CASE phase = "research" -> "research"
      [] phase = "writing" -> "draft"
      [] phase = "review" -> "review"
      [] phase = "revision" -> "final"

\* (mutant) the review phase comes before the writing phase
NextPhase_ReviewFirst(phase) ==
    CASE phase = "research" -> "review"
      [] phase = "review" -> "writing"
      [] phase = "writing" -> "revision"
      [] phase = "revision" -> "finishing"

\* The phase after a phase; "finishing" after the last.
NextPhase(phase) ==
    CASE phase = "research" -> "writing"
      [] phase = "writing" -> "review"
      [] phase = "review" -> "revision"
      [] phase = "revision" -> "finishing"

\* What the agent of a phase returns. revise_draft returns what the language
\* model answers, which may repeat the draft, or its own failure message.
PhaseOutputs(phase, paper_draft) ==
    CASE phase = "research" -> {"research_result"}
      [] phase = "writing" -> {"paper_draft"}
      [] phase = "review" -> {"review_feedback"}
      [] phase = "revision" -> {paper_draft, "revised_paper"}

RunKinds == {"request", "interactive"}

\* The status a run leaves on its project when a phase raises.
FailureStatus(kind) == IF kind = "request" THEN "error" ELSE "failed"

NoRun == [pc |-> "idle", kind |-> "", project_id |-> 0, paper_draft |-> "",
          failed_phases |-> 0, ended |-> ""]

\* api_start_multi_agent up to the first agent call, and
\* api_start_interactive_multi_agent with the start of its thread
StartRun(th, kind, p) ==
    /\ wf[th].pc = "idle"
    /\ sv[th].pc = "idle"
    /\ p \in projects                                  \* get_or_404
    /\ ~(kind = "request" /\ status[p] = "completed")  \* 400
    /\ wf' = [wf EXCEPT ![th] = [NoRun EXCEPT !.pc = "research", !.kind = kind,
                                              !.project_id = p]]
    /\ status' = IF kind = "request"
                 THEN [status EXCEPT ![p] = "processing"]
                 ELSE status
    /\ UNCHANGED <<projects, versions, sv>>
    /\ UNCHANGED notWorkflow

\* (mutant) a failing phase rolls back what the run saved for the project
PhaseRaises_Rollback(th) ==
    /\ wf[th].pc \in Range(Phases)
    /\ sv[th].pc = "idle"
    /\ wf' = [wf EXCEPT ![th] = [NoRun EXCEPT
                                    !.project_id = wf[th].project_id,
                                    !.failed_phases = wf[th].failed_phases + 1,
                                    !.ended = FailureStatus(wf[th].kind)]]
    /\ status' = [status EXCEPT ![wf[th].project_id] = FailureStatus(wf[th].kind)]
    /\ versions' = [k \in DOMAIN versions |->
                       IF k[1] = wf[th].project_id THEN <<>> ELSE versions[k]]
    /\ UNCHANGED <<projects, sv>>
    /\ UNCHANGED notWorkflow

\* A phase whose agent raises: the run ends.
PhaseRaises(th) ==
    /\ wf[th].pc \in Range(Phases)
    /\ sv[th].pc = "idle"
    /\ wf' = [wf EXCEPT ![th] = [NoRun EXCEPT
                                    !.project_id = wf[th].project_id,
                                    !.failed_phases = wf[th].failed_phases + 1,
                                    !.ended = FailureStatus(wf[th].kind)]]
    /\ status' = [status EXCEPT ![wf[th].project_id] = FailureStatus(wf[th].kind)]
    /\ UNCHANGED <<projects, versions, sv>>
    /\ UNCHANGED notWorkflow

\* A phase whose agent returns: its result goes to save_version, whose first
\* statement is part of this step.
PhaseReturns(th, content) ==
    /\ wf[th].pc \in Range(Phases)
    /\ sv[th].pc = "idle"
    /\ content \in PhaseOutputs(wf[th].pc, wf[th].paper_draft)
    /\ wf' = [wf EXCEPT ![th].pc = NextPhase(@),
                        ![th].paper_draft = IF wf[th].pc = "writing" THEN content ELSE @]
    /\ sv' = IF wf[th].project_id \in projects
             THEN [sv EXCEPT ![th] = [pc |-> "got_project",
                                      project_id |-> wf[th].project_id,
                                      content_type |-> SavedAs(wf[th].pc),
                                      content |-> content,
                                      version_number |-> 0]]
             ELSE sv
    /\ UNCHANGED <<projects, versions, status>>
    /\ UNCHANGED notWorkflow

\* What the agent of a phase returns when its completion call came back with
\* the "API" sentinel: WritingAgent.process and revise_draft catch their own
\* exception and return a failure message, and ReviewAgent._generate_feedback
\* wraps the short answer, the sentinel, as review results.
LLMFailureOutput(phase) ==
    CASE phase = "writing" -> "# Error in Paper Generation"
      [] phase = "review" -> "# Review Results: API sentinel"
      [] phase = "revision" -> "# revision failed"

\* A phase whose completion call fails: the agent returns, and what it
\* returns goes to save_version like any other result.
PhaseLLMFails(th) ==
    /\ wf[th].pc \in {"writing", "review", "revision"}
    /\ sv[th].pc = "idle"
    /\ wf' = [wf EXCEPT ![th].pc = NextPhase(@),
                        ![th].paper_draft = IF wf[th].pc = "writing"
                                            THEN LLMFailureOutput("writing") ELSE @]
    /\ sv' = IF wf[th].project_id \in projects
             THEN [sv EXCEPT ![th] = [pc |-> "got_project",
                                      project_id |-> wf[th].project_id,
                                      content_type |-> SavedAs(wf[th].pc),
                                      content |-> LLMFailureOutput(wf[th].pc),
                                      version_number |-> 0]]
             ELSE sv
    /\ UNCHANGED <<projects, versions, status>>
    /\ UNCHANGED notWorkflow

\* save_version's third statement, in a run
RunSaveCommit(th) ==
    /\ sv[th].pc = "got_latest"
    /\ TotalRows < MaxRunRows                          \* bound of the model
    /\ versions' = [versions EXCEPT ![sv[th].project_id, sv[th].content_type] =
          Append(@, PaperVersion(sv[th].project_id, sv[th].content_type,
                                 sv[th].content, sv[th].version_number))]
    /\ sv' = [sv EXCEPT ![th] = IdleCall]
    /\ UNCHANGED <<projects, status, wf>>
    /\ UNCHANGED notWorkflow

\* save_version's second statement, in a run
RunSaveQueryLatest(th) ==
    /\ SaveVersionQueryLatest(th)

\* (mutant) the run ends without writing the status completed
RunCompletes_NoStatus(th) ==
    /\ wf[th].pc = "finishing"
    /\ sv[th].pc = "idle"
    /\ wf' = [wf EXCEPT ![th] = [NoRun EXCEPT
                                    !.project_id = wf[th].project_id,
                                    !.ended = "completed"]]
    /\ UNCHANGED <<projects, versions, sv, status>>
    /\ UNCHANGED notWorkflow

\* project.status = "completed" after the fourth phase
RunCompletes(th) ==
    /\ wf[th].pc = "finishing"
    /\ sv[th].pc = "idle"
    /\ wf' = [wf EXCEPT ![th] = [NoRun EXCEPT
                                    !.project_id = wf[th].project_id,
                                    !.ended = "completed"]]
    /\ status' = [status EXCEPT ![wf[th].project_id] = "completed"]
    /\ UNCHANGED <<projects, versions, sv>>
    /\ UNCHANGED notWorkflow

WorkflowInit == wf = [th \in Threads |-> NoRun]

AllOutputs == {"research_result", "paper_draft", "review_feedback", "revised_paper"}

WorkflowNext ==
    \/ CreateProject
    \/ \E th \in Threads, kind \in RunKinds, p \in ProjectIds : StartRun(th, kind, p)
    \/ \E th \in Threads : PhaseRaises(th)
    \/ \E th \in Threads, content \in AllOutputs : PhaseReturns(th, content)
    \/ \E th \in Threads : RunSaveQueryLatest(th)
    \/ \E th \in Threads : RunSaveCommit(th)
    \/ \E th \in Threads : RunCompletes(th)

\* The thread of the behaviours with one run at a time.
MainThread == "thread1"

\* The steps of the run of thread th after its start.
RunStep(th) ==
    \/ PhaseRaises(th)
    \/ PhaseLLMFails(th)
    \/ \E content \in AllOutputs : PhaseReturns(th, content)
    \/ RunSaveQueryLatest(th)
    \/ RunSaveCommit(th)
    \/ RunCompletes(th)

\* One run at a time, each started only when the table has room for the four
\* versions it may save.
SequentialRunsNext ==
    \/ CreateProject
    \/ \E kind \in RunKinds, p \in ProjectIds :
          /\ TotalRows + Len(Phases) <= MaxRunRows
          /\ StartRun(MainThread, kind, p)
    \/ RunStep(MainThread)

(***************************************************************************)
(* The in-memory activity log (src/app.py): the module-level dict          *)
(* project_logs, written by log_agent_activity from the request handlers   *)
(* and from the writing thread, with no lock. A thread switch may fall     *)
(* between the statements of log_agent_activity.                           *)
(***************************************************************************)
\* The most entries appended to the logs.
MaxLogEntries == 3

\* `if len(project_logs[project_id]) > 100`
LogLimit == 100

NoLogCall == [pc |-> "idle", project_id |-> 0, entry |-> ""]

RECURSIVE SumLogs(_)
SumLogs(P) ==
    IF P = {} THEN 0
    ELSE LET p == CHOOSE x \in P : TRUE IN Len(project_logs[p]) + SumLogs(P \ {p})

\* (mutant) the cut keeps the oldest entries
LastEntries_Oldest(log) ==
    IF Len(log) > LogLimit THEN SubSeq(log, 1, LogLimit) ELSE log

\* project_logs[project_id][-100:]
LastEntries(log) ==
    IF Len(log) > LogLimit THEN SubSeq(log, Len(log) - LogLimit + 1, Len(log)) ELSE log

\* log_agent_activity: `if project_id not in project_logs:`
LogCheck(th, p, entry) ==
    /\ lg[th].pc = "idle"
    /\ lg' = [lg EXCEPT ![th] = [pc |-> IF p \in DOMAIN project_logs
                                        THEN "append" ELSE "init",
                                 project_id |-> p, entry |-> entry]]
    /\ UNCHANGED project_logs
    /\ UNCHANGED notLogs

\* log_agent_activity: `project_logs[project_id] = []`
LogInit(th) ==
    /\ lg[th].pc = "init"
    /\ project_logs' = [q \in DOMAIN project_logs \cup {lg[th].project_id} |->
                           IF q = lg[th].project_id THEN <<>> ELSE project_logs[q]]
    /\ lg' = [lg EXCEPT ![th].pc = "append"]
    /\ UNCHANGED notLogs

\* log_agent_activity: `project_logs[project_id].append(log_entry)`
LogAppend(th) ==
    /\ lg[th].pc = "append"
    /\ project_logs' = [project_logs EXCEPT
                           ![lg[th].project_id] = Append(@, lg[th].entry)]
    /\ lg' = [lg EXCEPT ![th].pc = "truncate"]
    /\ UNCHANGED notLogs

\* log_agent_activity: the log is cut to its last 100 entries
LogTruncate(th) ==
    /\ lg[th].pc = "truncate"
    /\ project_logs' = [project_logs EXCEPT ![lg[th].project_id] = LastEntries(@)]
    /\ lg' = [lg EXCEPT ![th] = NoLogCall]
    /\ UNCHANGED notLogs

LogsInit ==
    /\ project_logs = <<>>
    /\ lg = [th \in Threads |-> NoLogCall]

LogsNext ==
    \/ \E th \in Threads, p \in ProjectIds :
          /\ SumLogs(DOMAIN project_logs) < MaxLogEntries   \* bound of the model
          /\ LogCheck(th, p, th)
    \/ \E th \in Threads : LogInit(th)
    \/ \E th \in Threads : LogAppend(th)
    \/ \E th \in Threads : LogTruncate(th)

\* The most calls of log_agent_activity for one project, one after the other.
MaxLogCalls == 101

\* The entry of the next call for project p: the calls for a project are
\* numbered 1, 2, ... so that their order can be read off the log.
NextEntry(p) ==
    IF p \in DOMAIN project_logs /\ project_logs[p] # <<>>
    THEN project_logs[p][Len(project_logs[p])] + 1
    ELSE 1

\* log_agent_activity called again and again, each call after the one before
\* it has returned.
SerialLogsNext ==
    \/ \E p \in ProjectIds :
          /\ NextEntry(p) <= MaxLogCalls                   \* bound of the model
          /\ LogCheck(MainThread, p, NextEntry(p))
    \/ LogInit(MainThread)
    \/ LogAppend(MainThread)
    \/ LogTruncate(MainThread)

(***************************************************************************)
(* BaseAgent._make_api_call (src/agents/base_agent.py): up to max_retries  *)
(* requests, each of which answers, answers with an error, times out or    *)
(* raises; on a timeout an agent of model type openai switches its         *)
(* settings to SiliconFlow and calls _make_api_call again.                 *)
(***************************************************************************)
\* max_retries = 3
max_retries == 3

ModelTypes == {"openai", "anthropic", "gemini", "siliconflow"}

\* The four settings of an agent of a model type.
SettingsOf(model_type) ==
    [model_type |-> model_type, model |-> model_type \o " model",
     api_key |-> model_type \o " key", api_url |-> model_type \o " url"]

\* "Temporarily switch to SiliconFlow"
FallbackSettings ==
    [model_type |-> "siliconflow", model |-> "DEFAULT_MODEL",
     api_key |-> "SILICONFLOW_API_KEY",
     api_url |-> "https://api.siliconflow.cn/v1/chat/completions"]

RequestOutcomes == {"content", "error_status", "timeout", "exception"}

\* What the call returns when its last retry failed after an outcome.
SentinelOf(outcome) ==
    CASE outcome = "error_status" -> <<"API", "call", "failed">>
      [] outcome = "timeout" -> <<"API", "connection", "timeout">>
      [] outcome = "exception" -> <<"API", "call", "error">>

NoResult == <<"(no", "result)">>

\* BaseAgent.__init__ for a model type; no call has been made.
AgentOf(model_type) ==
    [pc |-> "idle", settings |-> SettingsOf(model_type),
     before |-> SettingsOf(model_type), orig |-> None,
     retry_count |-> 0, requests |-> 0, errors |-> <<>>, result |-> NoResult]

\* An agent of a model type is made and its _make_api_call(messages) is
\* entered.
MakeApiCall(model_type) ==
    /\ api.pc = "idle"
    /\ api' = [AgentOf(model_type) EXCEPT !.pc = "calling"]
    /\ UNCHANGED notApi

\* The call returns `result`; a call made as the fallback returns into the
\* `finally` of its caller, which restores the settings and returns the same
\* result.
Returning(a, result) ==
    [a EXCEPT !.pc = "returned", !.result = result,
              !.settings = IF a.orig # None THEN a.orig ELSE a.settings,
              !.orig = None]

\* One pass of the retry loop: requests.post and what follows its outcome.
ApiAttempt(outcome) ==
    /\ api.pc = "calling"
    /\ LET a == [api EXCEPT !.requests = @ + 1,
                            !.errors = IF outcome = "content" THEN @
                                       ELSE Append(@, outcome)]
       IN api' =
            IF outcome = "content"
            THEN Returning(a, <<"content">>)
            ELSE IF outcome = "timeout" /\ a.settings.model_type = "openai"
            THEN [a EXCEPT !.orig = a.settings, !.settings = FallbackSettings,
                           !.retry_count = 0]
            ELSE IF a.retry_count < max_retries - 1
            THEN [a EXCEPT !.retry_count = @ + 1]
            ELSE Returning(a, SentinelOf(outcome))
    /\ UNCHANGED notApi

ApiInit == api = [pc |-> "idle"]

ApiNext ==
    \/ \E model_type \in ModelTypes : MakeApiCall(model_type)
    \/ \E outcome \in RequestOutcomes : ApiAttempt(outcome)

(***************************************************************************)
(* The status map of the interactive runs (src/app_fixed.py): the dict     *)
(* agent_status, reset by api_start_interactive_multi_agent, written by    *)
(* the run's thread through update_agent_status and read by                *)
(* api_get_multi_agent_status. Nothing keeps a second run of a project     *)
(* from starting while the first is running.                               *)
(***************************************************************************)
NoStatusRun == [pc |-> "idle", project_id |-> 0, running |-> FALSE,
                latest |-> FALSE, ended |-> ""]

\* agent_status[project_id] = {...} at the start of a run
InitialAgentStatus ==
    [mcp |-> "Initializing", research |-> "Idle", writing |-> "Idle",
     review |-> "Idle"]

\* The agent whose status a phase reports: the revision is the writing agent's.
PhaseAgent(phase) ==
    CASE phase = "research" -> "research"
      [] phase = "writing" -> "writing"
      [] phase = "review" -> "review"
      [] phase = "revision" -> "writing"

\* update_agent_status(project_id, agent_id, status) applied to the dict
update_agent_status(all, project_id, agent_id, new_status) ==
    [q \in DOMAIN all \cup {project_id} |->
        IF q # project_id THEN all[q]
        ELSE LET old == IF q \in DOMAIN all THEN all[q] ELSE <<>>
             IN [a \in DOMAIN old \cup {agent_id} |->
                    IF a = agent_id THEN new_status ELSE old[a]]]

\* api_get_multi_agent_status: is_complete
is_complete(project_id) ==
    /\ project_id \in DOMAIN agent_status
    /\ DOMAIN agent_status[project_id] # {}
    /\ \A a \in DOMAIN agent_status[project_id] :
          agent_status[project_id][a] = "Complete"

\* api_start_interactive_multi_agent: the map of the project is replaced and
\* the thread of the run is started. The run becomes the project's latest.
StatusStart(th, p) ==
    /\ st[th].pc = "idle"
    /\ agent_status' = [q \in DOMAIN agent_status \cup {p} |->
                           IF q = p THEN InitialAgentStatus ELSE agent_status[q]]
    /\ st' = [t \in Threads |->
                IF t = th
                THEN [NoStatusRun EXCEPT !.pc = "research", !.project_id = p,
                                         !.latest = TRUE]
                ELSE IF st[t].project_id = p
                THEN [st[t] EXCEPT !.latest = FALSE]
                ELSE st[t]]
    /\ UNCHANGED notStatus

\* The run enters a phase: mcp is Working, the phase's agent is Working.
StatusPhaseBegins(th) ==
    /\ st[th].pc \in Range(Phases)
    /\ ~st[th].running
    /\ agent_status' = update_agent_status(
                           update_agent_status(agent_status, st[th].project_id,
                                               "mcp", "Working"),
                           st[th].project_id, PhaseAgent(st[th].pc), "Working")
    /\ st' = [st EXCEPT ![th].running = TRUE]
    /\ UNCHANGED notStatus

\* The phase's agent returned and its version is saved: the agent is Complete.
StatusPhaseEnds(th) ==
    /\ st[th].pc \in Range(Phases)
    /\ st[th].running
    /\ agent_status' = update_agent_status(agent_status, st[th].project_id,
                                           PhaseAgent(st[th].pc), "Complete")
    /\ st' = [st EXCEPT ![th].running = FALSE, ![th].pc = NextPhase(@)]
    /\ UNCHANGED notStatus

\* The phase raised: the agent and mcp are in Error and the run returns.
StatusPhaseFails(th) ==
    /\ st[th].pc \in Range(Phases)
    /\ st[th].running
    /\ agent_status' = update_agent_status(
                           update_agent_status(agent_status, st[th].project_id,
                                               PhaseAgent(st[th].pc), "Error"),
                           st[th].project_id, "mcp", "Error")
    /\ st' = [st EXCEPT ![th].running = FALSE, ![th].pc = "idle",
                        ![th].ended = "failed"]
    /\ UNCHANGED notStatus

\* After the fourth phase: the project is completed and mcp is Complete.
StatusRunFinishes(th) ==
    /\ st[th].pc = "finishing"
    /\ agent_status' = update_agent_status(agent_status, st[th].project_id,
                                           "mcp", "Complete")
    /\ st' = [st EXCEPT ![th].pc = "idle", ![th].ended = "completed"]
    /\ UNCHANGED notStatus

StatusInit ==
    /\ agent_status = <<>>
    /\ st = [th \in Threads |-> NoStatusRun]

StatusNext ==
    \/ \E th \in Threads, p \in ProjectIds : StatusStart(th, p)
    \/ \E th \in Threads : StatusPhaseBegins(th)
    \/ \E th \in Threads : StatusPhaseEnds(th)
    \/ \E th \in Threads : StatusPhaseFails(th)
    \/ \E th \in Threads : StatusRunFinishes(th)

(***************************************************************************)
(* api_start_research (src/app.py): the research phase run in the request. *)
(***************************************************************************)
\* api_start_research up to the call of the research agent
StartResearch(th, p) ==
    /\ wf[th].pc = "idle"
    /\ sv[th].pc = "idle"
    /\ p \in projects                                  \* 404 otherwise
    /\ status[p] # "researching"                       \* "in_progress" otherwise
    /\ status' = [status EXCEPT ![p] = "researching"]
    /\ wf' = [wf EXCEPT ![th] = [NoRun EXCEPT !.pc = "start_research",
                                              !.kind = "start_research",
                                              !.project_id = p]]
    /\ UNCHANGED <<projects, versions, sv>>
    /\ UNCHANGED notWorkflow

\* api_start_research: the agent returned; the result is stored as a row
\* with version_number=1, in one commit with the status.
StartResearchReturns(th, content) ==
    /\ wf[th].pc = "start_research"
    /\ TotalRows < MaxVersions                         \* bound of the model
    /\ versions' = [versions EXCEPT ![wf[th].project_id, "research"] =
          Append(@, PaperVersion(wf[th].project_id, "research", content, 1))]
    /\ status' = [status EXCEPT ![wf[th].project_id] = "research_complete"]
    /\ wf' = [wf EXCEPT ![th] = NoRun]
    /\ UNCHANGED <<projects, sv>>
    /\ UNCHANGED notWorkflow

\* api_start_research: the agent raised.
StartResearchRaises(th) ==
    /\ wf[th].pc = "start_research"
    /\ status' = [status EXCEPT ![wf[th].project_id] = "research_failed"]
    /\ wf' = [wf EXCEPT ![th] = NoRun]
    /\ UNCHANGED <<projects, versions, sv>>
    /\ UNCHANGED notWorkflow

\* api_start_writing up to the start of the async_write thread: 404 without
\* the project and 400 without a research version change nothing.
StartWriting(th, p) ==
    /\ wf[th].pc = "idle" /\ sv[th].pc = "idle"
    /\ p \in projects
    /\ get_latest_version(p, "research") # {None}
    /\ status' = [status EXCEPT ![p] = "writing"]
    /\ wf' = [wf EXCEPT ![th] = [NoRun EXCEPT !.pc = "async_write",
                                              !.kind = "start_writing",
                                              !.project_id = p]]
    /\ UNCHANGED <<projects, versions, sv>>
    /\ UNCHANGED notWorkflow

\* async_write: WritingAgent has no method generate, so the call raises and
\* the except branch assigns "writing_failed" and commits, in a thread that
\* has no application context: the commit stores the status, or raises and
\* leaves the stored status as it is.
AsyncWrite(th, committed) ==
    /\ wf[th].pc = "async_write"
    /\ status' = IF committed
                 THEN [status EXCEPT ![wf[th].project_id] = "writing_failed"]
                 ELSE status
    /\ wf' = [wf EXCEPT ![th] = NoRun]
    /\ UNCHANGED <<projects, versions, sv>>
    /\ UNCHANGED notWorkflow

\* api_start_review up to the call of the review agent: the status is set
\* and committed first, then the latest draft is looked up; without a draft
\* the request ends with the response 400.
StartReview(th, p) ==
    /\ wf[th].pc = "idle" /\ sv[th].pc = "idle"
    /\ p \in projects                                  \* get_or_404
    /\ status' = [status EXCEPT ![p] = "reviewing"]
    /\ wf' = [wf EXCEPT ![th] =
                IF get_latest_version(p, "draft") = {None}
                THEN [NoRun EXCEPT !.kind = "start_review", !.project_id = p,
                                   !.ended = "400"]
                ELSE [NoRun EXCEPT !.kind = "start_review", !.project_id = p,
                                   !.pc = "start_review"]]
    /\ UNCHANGED <<projects, versions, sv>>
    /\ UNCHANGED notWorkflow

\* api_start_review: the review agent returned, its feedback goes to
\* save_version, whose first statement is part of this step.
StartReviewReturns(th) ==
    /\ wf[th].pc = "start_review"
    /\ sv[th].pc = "idle"
    /\ wf' = [wf EXCEPT ![th].pc = "review_saving"]
    /\ sv' = IF wf[th].project_id \in projects
             THEN [sv EXCEPT ![th] = [pc |-> "got_project",
                                      project_id |-> wf[th].project_id,
                                      content_type |-> "review",
                                      content |-> "review_feedback",
                                      version_number |-> 0]]
             ELSE sv
    /\ UNCHANGED <<projects, versions, status>>
    /\ UNCHANGED notWorkflow

\* api_start_review after save_version: project.status = 'review_complete'
StartReviewCompletes(th) ==
    /\ wf[th].pc = "review_saving"
    /\ sv[th].pc = "idle"
    /\ status' = [status EXCEPT ![wf[th].project_id] = "review_complete"]
    /\ wf' = [wf EXCEPT ![th] = [NoRun EXCEPT !.kind = "start_review",
                                              !.project_id = wf[th].project_id,
                                              !.ended = "200"]]
    /\ UNCHANGED <<projects, versions, sv>>
    /\ UNCHANGED notWorkflow

\* Runs and review requests, one at a time.
ReviewNext ==
    \/ SequentialRunsNext
    \/ \E p \in ProjectIds : StartReview(MainThread, p)
    \/ StartReviewReturns(MainThread)
    \/ StartReviewCompletes(MainThread)

StoreInit ==
    /\ projects = {}
    /\ versions = [k \in ProjectIds \X (ContentTypes \cup RunContentTypes) |-> <<>>]
    /\ sv = [th \in Threads |-> IdleCall]
    /\ status = [p \in ProjectIds |-> NoRow]

Init ==
    /\ StoreInit /\ SupInit /\ CommInit /\ ResearchInit /\ WorkflowInit
    /\ LogsInit /\ StatusInit /\ ApiInit /\ CollabInit

\* The threads of the application (request handlers, background runs) call
\* save_version with no lock: their statements interleave freely.
StoreNext ==
    \/ CreateProject
    \/ \E th \in Threads, p \in ProjectIds, t \in ContentTypes, c \in Contents :
          SaveVersionGetProject(th, p, t, c)
    \/ \E th \in Threads : SaveVersionQueryLatest(th)
    \/ \E th \in Threads : SaveVersionCommit(th)

SpecStore == Init /\ [][StoreNext]_vars

\* The callers that run one at a time per (project_id, content_type): a call
\* for a pair starts only when no other call for that pair is in progress, and
\* a project is deleted only when no call for it is in progress.
InFlight(p) == {th \in Threads : sv[th].pc # "idle" /\ sv[th].project_id = p}

InFlightFor(p, t) == {th \in InFlight(p) : sv[th].content_type = t}

SerialSaveVersion(th, p, t, c) ==
    /\ InFlightFor(p, t) = {}
    /\ SaveVersionGetProject(th, p, t, c)

QuietDeleteProject(p) ==
    /\ InFlight(p) = {}
    /\ DeleteProject(p)

StoreSerialNext ==
    \/ CreateProject
    \/ \E p \in ProjectIds : QuietDeleteProject(p)
    \/ \E th \in Threads, p \in ProjectIds, t \in ContentTypes, c \in Contents :
          SerialSaveVersion(th, p, t, c)
    \/ \E th \in Threads : SaveVersionQueryLatest(th)
    \/ \E th \in Threads : SaveVersionCommit(th)

SpecStoreSerial == Init /\ [][StoreSerialNext]_vars

\* A project is deleted when no save_version call and no handler is in
\* progress for it.
HandlerQuietDelete(p) ==
    /\ \A th \in Threads : wf[th].pc = "idle" \/ wf[th].project_id # p
    /\ QuietDeleteProject(p)

\* The research phase started on its own, any number of times, with project
\* creation and deletion.
HandlersNext ==
    \/ CreateProject
    \/ \E p \in ProjectIds : HandlerQuietDelete(p)
    \/ \E th \in Threads, p \in ProjectIds : StartResearch(th, p)
    \/ \E th \in Threads : StartResearchReturns(th, "research_result")
    \/ \E th \in Threads : StartResearchRaises(th)
    \/ \E th \in Threads, p \in ProjectIds : StartWriting(th, p)
    \/ \E th \in Threads, committed \in BOOLEAN : AsyncWrite(th, committed)

SpecHandlers == Init /\ [][HandlersNext]_vars

SupNext ==
    \/ \E r \in ResearchResults, d \in PaperDrafts, f \in ReviewFeedbacks :
          SupervisorProcess(r, d, f)
    \/ \E completion \in Completions : SupervisorReturn(completion)

SpecSupervisor == Init /\ [][SupNext]_vars

SpecCommQueries == Init /\ [][CommQueriesNext]_vars

SpecComm == Init /\ [][CommNext]_vars

SpecResearch == Init /\ [][ResearchNext]_vars

SpecLogs == Init /\ [][LogsNext]_vars

SpecLogsSerial == Init /\ [][SerialLogsNext]_vars

SpecReview == Init /\ [][ReviewNext]_vars

SpecStatus == Init /\ [][StatusNext]_vars

SpecApi == Init /\ [][ApiNext]_vars

SpecCollab == Init /\ [][CollabNext]_vars

SpecWorkflow == Init /\ [][WorkflowNext]_vars

SpecRuns == Init /\ [][SequentialRunsNext]_vars

\* A started run goes on: its thread is scheduled, and every call it makes
\* returns or raises.
SpecRunsFair == SpecRuns /\ WF_vars(RunStep(MainThread))

(***************************************************************************)
(* Claims on the version store.                                            *)
(***************************************************************************)
Pairs == ProjectIds \X ContentTypes

\* C1: when the save_version calls for a (project_id, content_type) run one at
\* a time, the k-th call for the pair stores version_number k: the pair's rows,
\* in the order they were stored, are numbered 1, 2, 3, ... with no gap and no
\* repeat, whatever is stored for other content types and projects.
C1_SerialNumbering ==
    \A k \in Pairs : \A i \in DOMAIN versions[k] :
        versions[k][i].version_number = i

\* C1 witness: a pair holds versions 1 and 2 while another content type of
\* the same project holds a version of its own.
C1_Witness ==
    /\ Len(versions[1, "research"]) = 2
    /\ Len(versions[1, "draft"]) = 1

\* C2: interleaved save_version calls for one (project_id, content_type) never
\* store two versions with the same version_number.
C2_NoDuplicateNumber ==
    \A k \in Pairs : \A i, j \in DOMAIN versions[k] :
        i # j => versions[k][i].version_number # versions[k][j].version_number

\* C3: right after save_version(p, t, c) has stored and returned its version,
\* get_latest_version(p, t) returns a row with content c and with the version
\* number the call assigned.
C3_LatestIsJustSaved ==
    [][\A th \in Threads, p \in ProjectIds, t \in ContentTypes,
          c \in Contents, n \in 1..MaxVersions :
          ( /\ SaveVersionCommit(th)
            /\ sv[th].project_id = p /\ sv[th].content_type = t
            /\ sv[th].content = c /\ sv[th].version_number = n )
          => \A r \in get_latest_version(p, t)' :
                r # None /\ r.content = c /\ r.version_number = n]_vars

(***************************************************************************)
(* Claims on the supervisor.                                               *)
(***************************************************************************)
\* The last process call has returned.
Called == supCall # NoCall /\ sup.pc = "idle"

Evaluated == Called /\ supCall.result.decision # "(no key)"

\* C4: the supervisor's action depends only on which phase outputs are
\* present: research when research_result is absent, whatever the other two
\* are; write when only paper_draft is missing; review when only
\* review_feedback is missing; and the feedback is evaluated exactly when all
\* three are present.
C4_StageByPresence ==
    Called =>
        /\ supCall.research_result = None => supCall.result.action = "research"
        /\ (supCall.research_result # None /\ supCall.paper_draft = None)
              => supCall.result.action = "write"
        /\ (supCall.research_result # None /\ supCall.paper_draft # None
              /\ supCall.review_feedback = None)
              => supCall.result.action = "review"
        /\ Evaluated <=> ( /\ supCall.research_result # None
                           /\ supCall.paper_draft # None
                           /\ supCall.review_feedback # None )

\* C4 witness: a call without a research result but with a draft and feedback
\* was answered with the research action.
C4_Witness ==
    /\ Called
    /\ supCall.research_result = None
    /\ supCall.paper_draft # None
    /\ supCall.review_feedback # None
    /\ supCall.result.action = "research"

AllPresent ==
    /\ Called
    /\ supCall.research_result # None
    /\ supCall.paper_draft # None
    /\ supCall.review_feedback # None

\* C5: with research, draft and feedback present, the action follows the
\* evaluation text the language model returned: the accept phrase gives write
\* with decision revise; otherwise the reject phrase gives review; neither
\* gives complete; when both occur, accept wins.
C5_DecisionFromEvaluation ==
    AllPresent =>
        LET e == supCall.completion
            res == supCall.result
        IN /\ ContainsAccept(e) => (res.action = "write" /\ res.decision = "revise")
           /\ (~ContainsAccept(e) /\ ContainsReject(e)) => res.action = "review"
           /\ (~ContainsAccept(e) /\ ~ContainsReject(e)) => res.action = "complete"
           /\ (ContainsAccept(e) /\ ContainsReject(e)) => res.action = "write"

\* C5 witness: an evaluation holding both phrases, the reject phrase first,
\* was answered with write and revise.
C5_Witness ==
    /\ AllPresent
    /\ supCall.completion = <<"reject", "the", "feedback", "accept", "the", "feedback">>
    /\ supCall.result.action = "write"
    /\ supCall.result.decision = "revise"

\* C6 (as stated): with research and draft present, the supervisor returns
\* write with revise whenever the review feedback F contains "accept the
\* feedback", and complete whenever F contains neither phrase.
C6_DecisionFromFeedback ==
    AllPresent =>
        LET f == supCall.review_feedback.text
            res == supCall.result
        IN /\ Contains(f, <<"accept", "the", "feedback">>)
                => (res.action = "write" /\ res.decision = "revise")
           /\ (~ContainsAccept(f) /\ ~ContainsReject(f)) => res.action = "complete"

\* C6 (amended): with research, draft and feedback present, the supervisor
\* returns write with revise whenever the language model's evaluation of the
\* feedback contains "accept the feedback", and complete whenever that
\* evaluation contains neither the accept nor the reject phrase.
C6_DecisionFromEvaluationOfFeedback ==
    \A f \in ReviewFeedbacks \ {None} :
        (AllPresent /\ supCall.review_feedback = f) =>
            /\ Contains(supCall.completion, <<"accept", "the", "feedback">>)
                  => ( /\ supCall.result.action = "write"
                       /\ supCall.result.decision = "revise" )
            /\ ( /\ ~ContainsAccept(supCall.completion)
                 /\ ~ContainsReject(supCall.completion) )
                  => supCall.result.action = "complete"

\* C6 witness: feedback that holds the accept phrase, evaluated by a
\* completion that holds neither phrase, was answered with complete.
C6_Witness ==
    /\ AllPresent
    /\ supCall.review_feedback = Some(<<"accept", "the", "feedback">>)
    /\ supCall.completion = <<"the", "feedback">>
    /\ supCall.result.action = "complete"

\* The lower-case form of a word of the texts.
Lower(word) ==
    CASE word \in {"Accept", "ACCEPT"} -> "accept"
      [] word \in {"Reject", "REJECT"} -> "reject"
      [] word = "THE" -> "the"
      [] word = "FEEDBACK" -> "feedback"
      [] OTHER -> word

\* The lower-case form of a text.
LowerText(text) == [i \in DOMAIN text |-> Lower(text[i])]

\* C19: the phrase match on the evaluation ignores the letter case: an
\* evaluation that holds "accept the feedback" in any casing gives write with
\* the revise decision, and one that holds "reject the feedback" in any
\* casing and no accept phrase gives the reject decision.
C19_CaseInsensitiveMatch ==
    AllPresent =>
        LET e == LowerText(supCall.completion)
            res == supCall.result
        IN /\ Contains(e, <<"accept", "the", "feedback">>)
                => (res.action = "write" /\ res.decision = "revise")
           /\ ( /\ ~Contains(e, <<"accept", "the", "feedback">>)
                /\ Contains(e, <<"reject", "the", "feedback">>) )
                => (res.action = "review" /\ res.decision = "reject_feedback")

(***************************************************************************)
(* Claims on the communication agent.                                      *)
(***************************************************************************)
\* C7: send_message from an unregistered sender returns the failure
\* "Unknown sender" (also when the recipient is unregistered too), and from
\* a registered sender to an unregistered recipient the failure "Unknown
\* recipient"; in both cases no conversation is created, no message is
\* appended and no agent's status or last_active changes.
C7_UnknownPartyRejected ==
    [][\A s \in AgentIds, r \in AgentIds, m \in MessageContents, mt \in MessageTypes :
          send_message(s, r, m, mt) =>
             /\ s \notin Registered =>
                   /\ commRet' = Ret("send_message",
                         [success |-> FALSE, error |-> "Unknown sender"])
                   /\ UNCHANGED <<agent_states, conversations>>
             /\ (s \in Registered /\ r \notin Registered) =>
                   /\ commRet' = Ret("send_message",
                         [success |-> FALSE, error |-> "Unknown recipient"])
                   /\ UNCHANGED <<agent_states, conversations>>]_vars

\* C7 witness: a send was refused for its sender while a registered agent
\* that has sent a message and a conversation exist.
C7_Witness ==
    /\ commRet.method = "send_message"
    /\ ~commRet.value.success
    /\ commRet.value.error = "Unknown sender"
    /\ DOMAIN conversations # {}
    /\ \E a \in Registered : agent_states[a].status = "sent_message"

\* The conversations that hold a message between A and B, in either direction.
ConversationsBetween(A, B) ==
    { c \in DOMAIN conversations :
         \E i \in DOMAIN conversations[c].messages :
            LET msg == conversations[c].messages[i]
            IN {msg.sender, msg.recipient} = {A, B} }

\* The messages between A and B, in either direction, of all conversations.
MessagesBetween(A, B) ==
    { msg \in UNION { Range(conversations[c].messages) : c \in DOMAIN conversations } :
         {msg.sender, msg.recipient} = {A, B} }

\* C8: for any two registered agents A and B, all messages between them are
\* in one conversation, whose id is the sender_recipient form of the first
\* message sent between them, and the conversations "A_B" and "B_A" never
\* both exist.
C8_OneConversationPerPair ==
    \A A \in Registered, B \in Registered :
       A # B =>
          /\ Cardinality(ConversationsBetween(A, B)) <= 1
          /\ \A c \in ConversationsBetween(A, B) :
                \A first \in MessagesBetween(A, B) :
                   (\A msg \in MessagesBetween(A, B) : first.timestamp <= msg.timestamp)
                      => c = ConvId(first.sender, first.recipient)
          /\ ~( /\ ConvId(A, B) \in DOMAIN conversations
                /\ ConvId(B, A) \in DOMAIN conversations )

\* C9: the first register_agent for an id returns true and creates its
\* entry with status idle; a later register_agent for that id, whatever type
\* and description it passes, returns false and leaves that entry and every
\* other entry unchanged.
C9_RegisterOnce ==
    [][\A id \in AgentIds, reg \in Registrations :
          register_agent(id, reg[1], reg[2]) =>
             IF id \notin Registered
             THEN /\ commRet' = Ret("register_agent", TRUE)
                  /\ DOMAIN agent_states' = Registered \cup {id}
                  /\ agent_states'[id].status = "idle"
                  /\ agent_states'[id].type = reg[1]
                  /\ \A a \in Registered : agent_states'[a] = agent_states[a]
             ELSE /\ commRet' = Ret("register_agent", FALSE)
                  /\ agent_states' = agent_states]_vars

\* C9 witness: a registration was refused while every registered agent has
\* left the idle status, and one of them is registered as a research agent
\* and another as a writing agent.
C9_Witness ==
    /\ commRet.method = "register_agent"
    /\ commRet.value = FALSE
    /\ Registered # {}
    /\ \A a \in Registered : agent_states[a].status # "idle"
    /\ \E a \in Registered, b \in Registered :
          agent_states[a].type = "research" /\ agent_states[b].type = "writing"

(***************************************************************************)
(* Claims on the research agent.                                           *)
(***************************************************************************)
Returned == ra.pc = "idle" /\ ra.result # None

\* C10: whatever the source list and the topic, and also when every provider
\* fails or finds nothing on every attempt and the synthesis call of the
\* language model fails too, the result process returns has a non-empty
\* papers list.
C10_PapersNeverEmpty ==
    Returned => Len(ra.result.papers) > 0

\* C10 witness: arxiv and pubmed failed on each of their three attempts, the
\* synthesis call raised, and process returned the template papers.
C10_Witness ==
    /\ Returned
    /\ ra.research_sources = <<"arxiv", "pubmed">>
    /\ Len(ra.calls) = 2 * max_retry_attempts
    /\ ra.successful_sources = <<>>
    /\ DOMAIN ra.failed_sources = {"arxiv", "pubmed"}
    /\ ra.synthesis = "raise"
    /\ Len(ra.result.papers) = DefaultCount

\* The providers searched by the call that failed on their last attempt.
FailedProviders == DOMAIN ra.failed_sources

\* C11: process never raises to its caller; whatever the providers and the
\* language model did, it returns a result object, and that result records
\* failed_sources, a map from each failed source to its reason.
C11_ResultRecordsFailedSources ==
    Returned =>
        /\ "papers" \in DOMAIN ra.result
        /\ "failed_sources" \in DOMAIN ra.result
        /\ \A s \in FailedProviders :
              /\ s \in DOMAIN ra.result.failed_sources
              /\ ra.result.failed_sources[s] # ""

\* C13: with the one source arxiv, whose provider finds nothing on the first
\* and the second attempt and 3 papers on the third, the result has source
\* "arxiv", exactly 3 papers and arxiv as its successful source, and exactly
\* 2 sleeps were made.
C13_ThirdAttemptAfterTwoSleeps ==
    ( /\ Returned
      /\ ra.research_sources = <<"arxiv">>
      /\ ra.calls = <<"arxiv", "arxiv", "arxiv">>
      /\ ra.empty_results = 2
      /\ Len(ra.all_papers) = 3 )
        => /\ ra.result.source = "arxiv"
           /\ Len(ra.result.papers) = 3
           /\ ra.result.successful_sources = <<"arxiv">>
           /\ Len(ra.sleeps) = 2

\* C22: for each entry of the source list, process calls the provider at most
\* max_retry_attempts (3) times for arxiv and pubmed and exactly once for
\* google_scholar; the first attempt that gives at least one paper is the
\* last call for that entry, and the search goes on with the next entry.
C22_AttemptsPerSource ==
    [][ra.pc = "search" =>
          LET source == ra.research_sources[ra.i]
              found == Len(ra'.all_papers) > Len(ra.all_papers)
              same_entry == ra'.pc = "search" /\ ra'.i = ra.i
          IN /\ source \in Providers
             /\ ra'.calls = Append(ra.calls, source)
             /\ IF source = "google_scholar"
                THEN ra.attempt = 0 /\ ~same_entry
                ELSE ra.attempt < max_retry_attempts
             /\ found => ~same_entry
             /\ same_entry => ra'.attempt = ra.attempt + 1
             /\ ~same_entry => (ra'.pc # "search" \/ ra'.i > ra.i)]_vars

\* C22 witness: arxiv gave papers on its second attempt and was not called a
\* third time, and google_scholar was then called once and gave nothing.
C22_Witness ==
    /\ Returned
    /\ ra.research_sources = <<"arxiv", "google_scholar">>
    /\ ra.calls = <<"arxiv", "arxiv", "google_scholar">>
    /\ ra.successful_sources = <<"arxiv">>
    /\ DOMAIN ra.failed_sources = {"google_scholar"}

\* C23: after an attempt on a provider that gave no paper, by an exception
\* or by an empty result alike, process waits retry_delay * 2^attempt seconds
\* (attempt counted from 0) when another attempt on that provider follows,
\* and does not sleep when the attempt was the last one allowed.
C23_ExponentialBackoff ==
    [][ra.pc = "search" =>
          LET found == Len(ra'.all_papers) > Len(ra.all_papers)
              same_entry == ra'.pc = "search" /\ ra'.i = ra.i
          IN ~found =>
                IF same_entry
                THEN ra'.sleeps = Append(ra.sleeps, retry_delay * 2^ra.attempt)
                ELSE ra'.sleeps = ra.sleeps]_vars

\* The providers named in the source list of the agent.
ConfiguredProviders ==
    {ra.research_sources[k] : k \in DOMAIN ra.research_sources} \cap Providers

\* The providers a search of which gave at least one paper.
ProvidersThatFound ==
    {s \in Providers : \E k \in DOMAIN ra.all_papers : ra.all_papers[k].origin = s}

\* C24: after a search, the result records each configured provider in
\* exactly one of successful_sources and failed_sources: in
\* successful_sources if and only if one of its attempts gave at least one
\* paper, otherwise in failed_sources with a reason.
C24_EachSourceRecordedOnce ==
    Returned =>
        /\ "successful_sources" \in DOMAIN ra.result
        /\ "failed_sources" \in DOMAIN ra.result
        /\ \A s \in ConfiguredProviders :
              LET successful == \E k \in DOMAIN ra.result.successful_sources :
                                   ra.result.successful_sources[k] = s
                  failed == s \in DOMAIN ra.result.failed_sources
              IN /\ successful <=> ~failed
                 /\ successful <=> s \in ProvidersThatFound
                 /\ failed => ra.result.failed_sources[s] # ""

\* The origins of the papers of the returned result.
ResultOrigins == {ra.result.papers[k].origin : k \in DOMAIN ra.result.papers}

\* C25: the fallback chain is ordered and exclusive. When a provider gave
\* papers, the result holds provider papers only; template papers are in the
\* result only when the synthesis call of the language model was made and
\* failed or gave no paper; and the reported source is the comma-joined
\* successful sources exactly when at least one provider succeeded.
C25_FallbackChain ==
    Returned =>
        /\ ra.successful_sources # <<>> => ResultOrigins \subseteq Providers
        /\ "template" \in ResultOrigins =>
              /\ ra.successful_sources = <<>>
              /\ ra.synthesis \in {"raise", "text", "json"}
              /\ ResultOrigins = {"template"}
        /\ (ra.result.source = Join(ra.successful_sources))
              <=> ra.successful_sources # <<>>

(***************************************************************************)
(* Claims on the multi-agent runs.                                         *)
(***************************************************************************)
\* C12: a run whose agents raise ends only at its third failed phase, and
\* then with project status error; one failed phase alone does not end it.
C12_AbortAfterMaxErrors ==
    [][\A th \in Threads :
          (PhaseRaises(th) /\ wf'[th].pc = "idle") =>
             /\ wf'[th].failed_phases = 3
             /\ status'[wf[th].project_id] = "error"]_vars

\* A run on project p has ended with all four phases done, and it is the
\* only run that has saved anything for p.
OneFullRun(th, p) ==
    /\ wf[th].pc = "idle"
    /\ wf[th].ended = "completed"
    /\ wf[th].project_id = p
    /\ \A t \in RunContentTypes \ {"final"} : Len(versions[p, t]) = 1
    /\ \A other \in Threads \ {th} : sv[other].pc = "idle"

\* C14: a full run (research, write, review, revision, complete) leaves
\* exactly one final version for the project, and its content is the content
\* of the latest draft version.
C14_FinalIsLatestDraft ==
    \A th \in Threads, p \in ProjectIds :
        OneFullRun(th, p) =>
            /\ Len(versions[p, "final"]) = 1
            /\ \A f \in get_latest_version(p, "final"),
                  d \in get_latest_version(p, "draft") :
                     f.content = d.content

\* C16: every paper of the result process returns carries exactly 3 key
\* points, whichever path produced it (a provider's formatter, the papers
\* the language model suggested, the template papers) and whatever its
\* abstract is.
C16_ThreeKeyPointsPerPaper ==
    Returned =>
        \A k \in DOMAIN ra.result.papers : ra.result.papers[k].key_points = 3

\* C17: in every conversation the ids of the messages are 1..n in the order
\* of the appends, and a successful send_message returns the id it gave to
\* the message it appended, which is the count of the conversation's
\* messages before the append plus one.
C17_MessageIdsSequential ==
    /\ \A c \in DOMAIN conversations :
          \A i \in DOMAIN conversations[c].messages :
             conversations[c].messages[i].id = i
    /\ (commRet.method = "send_message" /\ commRet.value.success) =>
          /\ commRet.value.conversation_id \in DOMAIN conversations
          /\ commRet.value.message_id =
                Len(conversations[commRet.value.conversation_id].messages)

\* C17 witness: a send returned the id 2 for the second message of a
\* conversation while another conversation holds one message.
C17_Witness ==
    /\ commRet.method = "send_message"
    /\ commRet.value.success
    /\ commRet.value.message_id = 2
    /\ \E c \in DOMAIN conversations : Len(conversations[c].messages) = 1

\* C20: every successful send_message between two different agents sets the
\* sender's status to sent_message, the recipient's status to
\* received_message and the last_active of both the sender and the recipient
\* to the timestamp of the message, and changes no other agent's entry.
C20_BothPartiesActive ==
    [][\A s \in AgentIds, r \in AgentIds, m \in MessageContents, mt \in MessageTypes :
          ( /\ send_message(s, r, m, mt)
            /\ ValidationError(s, r) = ""
            /\ s # r ) =>
             LET conv == conversations'[ResolveConvId(s, r)]
                 timestamp == conv.messages[Len(conv.messages)].timestamp
             IN /\ agent_states'[s].status = "sent_message"
                /\ agent_states'[r].status = "received_message"
                /\ agent_states'[s].last_active = timestamp
                /\ agent_states'[r].last_active = timestamp
                /\ \A a \in Registered \ {s, r} : agent_states'[a] = agent_states[a]]_vars

\* C21: get_conversation and get_agent_conversations are pure reads: for
\* every argument, an unknown conversation id and an unregistered agent id
\* included, the step leaves the conversations, with every message list,
\* and every entry of the agent registry unchanged.
C21_QueriesArePureReads ==
    [][( \/ \E c \in QueriedConversationIds : get_conversation(c)
         \/ \E a \in AgentIds : get_agent_conversations(a) )
          => UNCHANGED <<agent_states, conversations>>]_vars

\* C21 witness: an unknown conversation was asked for while a conversation
\* with a message exists and an agent has the status received_message.
C21_Witness ==
    /\ commRet.method = "get_conversation"
    /\ ~commRet.value.success
    /\ \E c \in DOMAIN conversations : Len(conversations[c].messages) = 1
    /\ \E a \in Registered : agent_states[a].status = "received_message"

\* C26: the step on which a phase of a run fails (the run does not go on to
\* its next phase) ends the run: it leaves the
\* thread with no phase and no save in progress, leaves every stored version
\* as it is and leaves what the latest-version reads return as it is; and a
\* version is only ever saved by a run that has not ended.
C26_AbortKeepsArtifacts ==
    [][\A th \in Threads :
          /\ (wf[th].pc \in Range(Phases)
                 /\ wf'[th].pc \notin {wf[th].pc, NextPhase(wf[th].pc)}) =>
                /\ wf'[th].pc = "idle"
                /\ wf'[th].ended \in {"error", "failed"}
                /\ sv'[th].pc = "idle"
                /\ versions' = versions
                /\ \A p \in ProjectIds, t \in RunContentTypes :
                      get_latest_version(p, t)' = get_latest_version(p, t)
          /\ (sv[th].pc = "got_latest" /\ sv'[th].pc = "idle"
                 /\ versions' # versions) =>
                /\ wf[th].pc \in {"writing", "review", "revision", "finishing"}
                /\ wf[th].ended = ""]_vars

\* C26 witness: a run on project 1 failed in its review phase after it had
\* saved its research and its draft, which are what the latest reads return.
C26_Witness ==
    /\ wf["thread1"].pc = "idle"
    /\ wf["thread1"].ended \in {"error", "failed"}
    /\ wf["thread1"].project_id = 1
    /\ wf["thread2"] = NoRun
    /\ Len(versions[1, "research"]) = 1
    /\ Len(versions[1, "draft"]) = 1
    /\ versions[1, "review"] = <<>>
    /\ get_latest_version(1, "draft") = {versions[1, "draft"][1]}

\* The number of versions of content type t stored for project p.
Saved(p, t) == Len(versions[p, t])

\* C27: the phases of a run go strictly in the order research, write, review,
\* revise. A run is in a phase with no save in progress only when the
\* version of the phase before is stored; for no project is a draft stored
\* without a research version before it, a review without a draft, a final
\* version without a review; and the status of a project is completed only
\* when a final version is stored for it.
C27_PhasesInOrder ==
    /\ \A p \in ProjectIds :
          /\ Saved(p, "research") >= Saved(p, "draft")
          /\ Saved(p, "draft") >= Saved(p, "review")
          /\ Saved(p, "review") >= Saved(p, "final")
          /\ status[p] = "completed" => Saved(p, "final") >= 1
    /\ \A th \in Threads :
          LET p == wf[th].project_id
          IN (wf[th].pc # "idle" /\ sv[th].pc = "idle") =>
                /\ wf[th].pc = "writing" => Saved(p, "research") > Saved(p, "draft")
                /\ wf[th].pc = "review" => Saved(p, "draft") > Saved(p, "review")
                /\ wf[th].pc = "revision" => Saved(p, "review") > Saved(p, "final")
                /\ wf[th].pc = "finishing" => Saved(p, "final") >= 1

\* C27 witness: a run completed on project 1, which holds one version of each
\* of the four content types, while another run on project 1 has not
\* saved anything yet.
C27_Witness ==
    /\ status[1] = "completed"
    /\ \A t \in RunContentTypes : Saved(1, t) = 1
    /\ \E th \in Threads : wf[th].pc = "idle" /\ wf[th].ended = "completed"

\* The values of the status of a project that the specification names.
SpecifiedStatuses ==
    {"created", "researching", "research_complete", "writing", "writing_complete",
     "reviewing", "review_complete", "processing", "completed", "error", "failed"}

\* C28: in every reachable state the status of every project is one of
\* created, researching, research_complete, writing, writing_complete,
\* reviewing, review_complete, processing, completed, error, failed.
C28_StatusInSpecifiedSet ==
    \A p \in projects : status[p] \in SpecifiedStatuses

IsPrefix(a, b) ==
    /\ Len(a) <= Len(b)
    /\ \A k \in DOMAIN a : a[k] = b[k]

\* C29: the writes to a project's in-memory activity log exclude each
\* other, so that no entry is lost when several threads log for the same
\* project: every step keeps the entries of every project's log and only
\* adds to them, apart from the cut to the last 100 entries.
C29_NoLostLogEntry ==
    [][\A p \in DOMAIN project_logs :
          /\ p \in DOMAIN project_logs'
          /\ \/ IsPrefix(project_logs[p], project_logs'[p])
             \/ /\ Len(project_logs[p]) > LogLimit
                /\ project_logs'[p] = LastEntries(project_logs[p])]_vars

\* C31: when the completion calls of a phase fail, the phase's output is
\* absent: no stored draft, review or final version holds a failure message
\* or the sentinel in place of content.
C31_NoErrorTextSaved ==
    \A k \in DOMAIN versions : \A i \in DOMAIN versions[k] :
        versions[k][i].content \notin
            {LLMFailureOutput(phase) : phase \in {"writing", "review", "revision"}}

\* C32: when the evaluation's completion call fails and returns one of its
\* error sentinels, _evaluate_review_feedback returns action complete with
\* decision complete, and the iteration counter has still gone up by one.
C32_FailedEvaluationCompletes ==
    [][ /\ (sup.pc = "idle" /\ sup'.pc = "evaluate") =>
              sup'.iteration_round = sup.iteration_round + 1
        /\ (sup.pc = "evaluate" /\ sup'.pc = "idle"
               /\ supCall'.completion \in ApiErrorSentinels) =>
              /\ supCall'.result.action = "complete"
              /\ supCall'.result.decision = "complete"
              /\ supCall'.result.iteration = sup'.iteration_round
              /\ sup'.iteration_round = sup.iteration_round ]_vars

C32_Witness ==
    /\ Evaluated
    /\ supCall.completion \in ApiErrorSentinels
    /\ supCall.result.decision = "complete"
    /\ supCall.result.iteration = 2
    /\ sup.iteration_round = 2

\* C33: after any sequence of log_agent_activity calls a project's log holds
\* at most 100 entries, which are the most recent ones logged for the project
\* in call order, the entry of the last call at the end; and a call for one
\* project never changes the log of another.
C33_LastHundredInOrder ==
    /\ [](lg[MainThread].pc = "idle" =>
            \A p \in DOMAIN project_logs :
               LET log == project_logs[p]
                   calls == NextEntry(p) - 1
               IN /\ Len(log) = Min(calls, LogLimit)
                  /\ \A i \in DOMAIN log : log[i] = calls - Len(log) + i)
    /\ [][ /\ \A p \in ProjectIds :
                (p \in DOMAIN project_logs' /\ p # lg[MainThread].project_id) =>
                   (p \in DOMAIN project_logs /\ project_logs'[p] = project_logs[p])
           /\ (lg[MainThread].pc = "truncate" /\ lg'[MainThread].pc = "idle") =>
                 LET log == project_logs'[lg[MainThread].project_id]
                 IN log[Len(log)] = lg[MainThread].entry ]_vars

C33_Witness ==
    /\ lg[MainThread].pc = "idle"
    /\ \E p \in DOMAIN project_logs :
          /\ Len(project_logs[p]) = LogLimit
          /\ project_logs[p][1] = 2
          /\ project_logs[p][LogLimit] = LogLimit + 1
    /\ \E q \in DOMAIN project_logs : project_logs[q] = <<1>>

\* C34: every message stored in a conversation has its sender and recipient
\* equal to the conversation's two participants, also for agent ids that
\* contain the character "_".
C34_MessagesOfOnePair ==
    \A c \in DOMAIN conversations :
        \A i \in DOMAIN conversations[c].messages :
            {conversations[c].messages[i].sender,
             conversations[c].messages[i].recipient}
               = Range(conversations[c].participants)

\* C35: a start-review request for a project without a draft version fails
\* with an error response and leaves the project's status and its stored
\* versions as they were before the request.
C35_NoDraftChangesNothing ==
    [][\A p \in ProjectIds :
          ( /\ wf[MainThread].pc = "idle"
            /\ StartReview(MainThread, p)
            /\ get_latest_version(p, "draft") = {None} ) =>
              /\ wf'[MainThread].ended = "400"
              /\ status'[p] = status[p]
              /\ versions' = versions]_vars

\* C36: multi_agent_status reports is_complete only when the project's most
\* recently started run has finished its four phases and saved its final
\* version, and never while a run of the project is still executing, a second
\* run started during the first included.
C36_CompleteOnlyWhenDone ==
    \A p \in ProjectIds :
        is_complete(p) =>
            \A th \in Threads :
                st[th].project_id = p =>
                    /\ st[th].pc = "idle"
                    /\ st[th].latest => st[th].ended = "completed"

\* C37: one invocation of _make_api_call returns to its caller after at most
\* 3 HTTP requests, whatever the model type; when every attempt failed it
\* returns a text that begins with "API"; and the agent's model_type, model,
\* api_key and api_url are then what they were before the call.
C37_AtMostThreeRequests ==
    api.pc = "returned" =>
        /\ api.requests <= max_retries
        /\ api.result # NoResult
        /\ api.result # <<"content">> => api.result[1] = "API"
        /\ api.settings = api.before

\* The messages from sender s to recipient r in the conversation c.
SentIn(c, s, r) ==
    {i \in DOMAIN conversations[c].messages :
        /\ conversations[c].messages[i].sender = s
        /\ conversations[c].messages[i].recipient = r}

\* C38: facilitate_collaboration with n agents and max_rounds = r returns
\* after r rounds with every agent registered and r * n * (n - 1) messages
\* recorded: r messages per ordered pair of distinct agents, each of them in
\* the conversation of its pair, whether or not a completion call failed.
C38_OneMessagePerPairPerRound ==
    fc.pc = "returned" =>
        LET ag == Range(fc.agents)
            n == Len(fc.agents)
        IN /\ ag \subseteq Registered
           /\ commRet.value.rounds = fc.max_rounds
           /\ TotalMessages = fc.max_rounds * n * (n - 1)
           /\ \A s \in ag, r \in ag :
                 s # r =>
                    \E c \in DOMAIN conversations :
                       /\ Range(conversations[c].participants) = {s, r}
                       /\ Cardinality(SentIn(c, s, r)) = fc.max_rounds

\* C39: save_version called with a project_id that does not exist returns
\* None: the call is over after its first statement, it stores no version
\* row then or later, and all existing versions are left unchanged.
C39_NoProjectNoVersion ==
    [][\A th \in Threads, p \in ProjectIds, t \in ContentTypes, c \in Contents :
          (p \notin projects /\ SaveVersionGetProject(th, p, t, c)) =>
              /\ sv'[th] = IdleCall
              /\ versions' = versions
              /\ \A u \in RunContentTypes : versions'[p, u] = <<>>]_vars

C39_Witness ==
    /\ \E p \in ProjectIds : p \notin projects /\ ENABLED SaveVersionGetProject("thread1", p, "draft", "c1")
    /\ \E q \in projects : versions[q, "draft"] # <<>>

C18_NumbersDistinctAndGapless ==
    \A p \in ProjectIds, t \in RunContentTypes :
        /\ \A i, j \in DOMAIN versions[p, t] :
              i # j => versions[p, t][i].version_number # versions[p, t][j].version_number
        /\ NumbersOf(p, t) = 1..Len(versions[p, t])

====
